---- MODULE Spec2Model ----
(***************************************************************************)
(* A model of agent-md-tool: the marked-block merger of generator.ts       *)
(* (updateContent, generateAgentsMd, listSources, removeSource), the       *)
(* branch-fallback loop of downloader.ts (fetchRepoTreeWithFallback), the  *)
(* selection and the download loop of downloadDocs, the dispatch on the    *)
(* source argument (getSourceType, parseGitHubUrl, isLlmsTxtUrl), the      *)
(* indexer (createIndex), the main command on an llms.txt source, the      *)
(* source names generateSourceName and generateLlmsSourceName make, and    *)
(* the main command on a repository source, run once or again.             *)
(*                                                                         *)
(* Text is modelled as a sequence of tokens.  A token is a record          *)
(* [k, id]: k is the kind of the token ("start" and "end" are the two      *)
(* marker strings of an identifier, "nl" a newline, "sp" a blank, every    *)
(* other kind a run of non-blank text) and id is the sequence of           *)
(* characters the token carries.  A marker of an identifier that           *)
(* validateSourceName accepts can neither contain nor overlap another      *)
(* marker (it starts with "<!--", ends with "-->" and has neither in       *)
(* between), so String.indexOf of a marker is the position of its token.   *)
(***************************************************************************)
EXTENDS Integers, Sequences, FiniteSets, TLC

VARIABLES
    fileExists,   \* the output file exists on disk
    doc,          \* content of the output file (<<>> when it does not exist)
    op,           \* last operation run: "none", "generate", "list", "remove"
    opId,         \* its sourceName argument
    opIndex,      \* its compressedIndex argument
    opResult,     \* its outcome
    prevDoc,      \* content of the output file before the last operation
    listed        \* value returned by the last listSources

mergerVars == <<fileExists, doc, op, opId, opIndex, opResult, prevDoc, listed>>

VARIABLES
    fetchPc,          \* fetchRepoTreeWithFallback: "idle", "loop", "returned", "thrown"
    repository,       \* its owner and repo arguments
    preferredBranch,  \* its preferredBranch argument
    branchesToTry,    \* the list of branches it built
    nextBranch,       \* position in branchesToTry of the next loop iteration
    requests,         \* the branches of the tree requests issued, in order
    responses,        \* what each of those requests met
    fetched,          \* the branch returned
    thrown            \* the error thrown to the caller

fetchVars == <<fetchPc, repository, preferredBranch, branchesToTry, nextBranch,
               requests, responses, fetched, thrown>>

VARIABLES
    dlPc,            \* downloadDocs: "idle", "tree" (tree fetched), "loop", "returned", "thrown"
    tree,            \* the tree fetchRepoTreeWithFallback returned
    optPath,         \* options.path
    onProgress,      \* the callback passed: "absent", "returns" or "throws"
    targetPath,      \* targetPath after auto-detection
    detectedPath,    \* detectedPath (<<>> stands for undefined)
    markdownFiles,   \* the entries filterMarkdownFiles kept
    nextFile,        \* position in markdownFiles of the next loop iteration
    downloadedCount, \* downloadedCount
    failedFiles,     \* failedFiles
    attempts,        \* the relative paths whose try block was entered, in order
    progressCalls,   \* the arguments of the calls of onProgress, in order
    mkdirs,          \* the directories fs.mkdir was called for in the loop
    writtenFiles,    \* the files fs.writeFile wrote
    dlThrown,        \* the failure downloadDocs threw
    lastOutcome,     \* what the awaited calls of the last iteration met
    dlSourceName,    \* sourceName of downloadDocs: the option or the generated name
    dlResult         \* the value downloadDocs returned

downloadVars == <<dlPc, tree, optPath, onProgress, targetPath, detectedPath,
                  markdownFiles, nextFile, downloadedCount, failedFiles, attempts,
                  progressCalls, mkdirs, writtenFiles, dlThrown, lastOutcome, dlSourceName,
                  dlResult>>

VARIABLES
    srcPc,       \* the dispatch on the source: "idle", "given", "resolved"
    source,      \* the source argument of the command
    sourceType,  \* what getSourceType returned
    parsed,      \* what parseGitHubUrl returned
    route        \* where the command went: "downloadDocs", "downloadLlmsTxt" or "InvalidSource"

resolveVars == <<srcPc, source, sourceType, parsed, route>>

VARIABLES
    ixPc,             \* createIndex: "idle", "ready", "returned", "thrown"
    dirFiles,         \* the files below docsPath, in the order readdir gives them
    ixResult,         \* the value createIndex returned
    ixThrown          \* the failure createIndex threw

indexVars == <<ixPc, dirFiles, ixResult, ixThrown>>

VARIABLES
    runPc,      \* the main command: "idle", "start", "running", "downloaded", "done", "failed"
    runSource,  \* its source argument
    runError    \* the failure that ended it

runVars == <<runPc, runSource, runError>>

VARIABLES
    nmPc,       \* the naming of sources: "idle", "start", "repositories", "done"
    nmFirst,    \* a repository source: its owner and its repo
    nmSecond,   \* another repository source
    nmUrl,      \* an llms.txt source
    nmNames     \* the identifiers generated for the three

namesVars == <<nmPc, nmFirst, nmSecond, nmUrl, nmNames>>

VARIABLES
    optBranch,   \* the --branch option: "none" when it was not given
    optName,     \* the --source-name option: <<>> when it was not given
    exitStatus,  \* the status the process ended with: -1 while it runs
    runs         \* how many runs of the command have begun

cliVars == <<optBranch, optName, exitStatus, runs>>

vars == <<mergerVars, fetchVars, downloadVars, resolveVars, indexVars, runVars, namesVars,
          cliVars>>

----------------------------------------------------------------------------
(* Bounds *)

MaxInitLen == 4
MaxDocLen == 21
MaxTreeLen == 3
MaxWalkLen == 3

(* Program constants *)

MAX_SOURCE_NAME == 100

----------------------------------------------------------------------------
(* The values of the variables of a part of the program that is not running *)

\* the value of dlResult before downloadDocs returns
NoResult ==
    [totalFiles |-> 0, downloadedFiles |-> 0, docsPath |-> <<>>, detectedPath |-> <<>>]

DownloadIdle ==
    /\ dlPc = "idle"
    /\ tree = <<>>
    /\ optPath = <<>>
    /\ onProgress = "absent"
    /\ targetPath = <<>>
    /\ detectedPath = <<>>
    /\ markdownFiles = <<>>
    /\ nextFile = 1
    /\ downloadedCount = 0
    /\ failedFiles = <<>>
    /\ attempts = <<>>
    /\ progressCalls = <<>>
    /\ mkdirs = {}
    /\ writtenFiles = {}
    /\ dlThrown = "none"
    /\ lastOutcome = "none"
    /\ dlSourceName = <<"name">>
    /\ dlResult = NoResult

\* the value of parsed before parseGitHubUrl returns
NotParsed == [ok |-> FALSE, owner |-> <<>>, repo |-> <<>>, branch |-> <<>>]

ResolveIdle ==
    /\ srcPc = "idle"
    /\ source = <<>>
    /\ sourceType = "none"
    /\ parsed = NotParsed
    /\ route = "none"

IndexIdle ==
    /\ ixPc = "idle"
    /\ dirFiles = <<>>
    /\ ixResult = <<>>
    /\ ixThrown = "none"

RunIdle ==
    /\ runPc = "idle"
    /\ runSource = <<>>
    /\ runError = "none"

NoNames == [first |-> <<>>, second |-> <<>>, llms |-> <<>>]

NamesIdle ==
    /\ nmPc = "idle"
    /\ nmFirst = <<>>
    /\ nmSecond = <<>>
    /\ nmUrl = <<>>
    /\ nmNames = NoNames

CliIdle ==
    /\ optBranch = "none"
    /\ optName = <<>>
    /\ exitStatus = -1
    /\ runs = 0

----------------------------------------------------------------------------
(* Strings *)

Tok(kind, chars) == [k |-> kind, id |-> chars]

NL == Tok("nl", <<>>)
SP == Tok("sp", <<>>)

IsSpace(t) == t.k \in {"nl", "sp"}

substring(s, from, to) == SubSeq(s, from + 1, to)

substringFrom(s, from) == SubSeq(s, from + 1, Len(s))

startsWithAt(s, sub, i) ==
    /\ i + Len(sub) <= Len(s)
    /\ \A j \in 1..Len(sub) : s[i + j] = sub[j]

\* the first position from i on where sub occurs in s, or -1
indexOfFrom(s, sub, i) ==
    IF \E k \in i..(Len(s) - Len(sub)) : startsWithAt(s, sub, k)
    THEN CHOOSE k \in i..(Len(s) - Len(sub)) :
             /\ startsWithAt(s, sub, k)
             /\ \A j \in i..(k - 1) : ~startsWithAt(s, sub, j)
    ELSE -1

\* String.prototype.indexOf: the 0-based position of the first occurrence, or -1
indexOf(s, sub) == indexOfFrom(s, sub, 0)

includes(s, sub) == indexOf(s, sub) # -1

RECURSIVE trimEnd(_)
trimEnd(s) ==
    IF s # <<>> /\ IsSpace(s[Len(s)]) THEN trimEnd(SubSeq(s, 1, Len(s) - 1)) ELSE s

RECURSIVE trimStart(_)
trimStart(s) ==
    IF s # <<>> /\ IsSpace(s[1]) THEN trimStart(Tail(s)) ELSE s

trim(s) == trimStart(trimEnd(s))

----------------------------------------------------------------------------
(* generator.ts: markers, index block, validation *)

\* the two marker strings of a source name, each one token of the text
getStartMarker(sourceName) == <<Tok("start", sourceName)>>

getEndMarker(sourceName) == <<Tok("end", sourceName)>>

Upper(c) == IF c = "a" THEN "A" ELSE IF c = "b" THEN "B" ELSE c

\* split('-'), capitalise the first character of every word, join(' ')
formatDisplayName(sourceName) ==
    [i \in 1..Len(sourceName) |->
        IF sourceName[i] = "-" THEN " "
        ELSE IF i = 1 \/ sourceName[i - 1] = "-" THEN Upper(sourceName[i])
        ELSE sourceName[i]]

\* './' + path.relative(outputDir, resolve(docsDir, sourceName)) for the default
\* output file and docs directory and a source name that is one path segment
relativePath(sourceName) == <<"./", ".docs", "/">> \o sourceName

generateIndexBlock(sourceName, displayName, rootPath, compressedIndex) ==
    getStartMarker(sourceName)
    \o <<NL, Tok("title", displayName), NL, Tok("root", rootPath), NL, NL,
         Tok("guidance", displayName), NL, NL>>
    \o compressedIndex
    \o <<NL>>
    \o getEndMarker(sourceName)

IsBlankName(sourceName) == \A i \in 1..Len(sourceName) : sourceName[i] = " "

\* "ok", or the failure validateSourceName throws
validateSourceName(sourceName) ==
    IF sourceName = <<>> \/ IsBlankName(sourceName) THEN "InvalidIdentifier"
    ELSE IF Len(sourceName) > MAX_SOURCE_NAME THEN "InvalidIdentifier"
    ELSE IF includes(sourceName, <<"-", "-", ">">>)
            \/ includes(sourceName, <<"<", "!", "-", "-">>) THEN "InvalidIdentifier"
    ELSE "ok"

\* the template of a new output file; it ends with a blank line
createNewFileContent ==
    <<Tok("text", <<"# AGENTS">>), NL, NL,
      Tok("text", <<"## Documentation Indexes">>), NL, NL>>

----------------------------------------------------------------------------
(* generator.ts: updateContent *)

\* updateContent with the end marker left behind by the replacement
updateContentKeepsEndMarker(existingContent, sourceName, indexBlock) ==
    LET startIdx == indexOf(existingContent, getStartMarker(sourceName))
        endIdx == indexOf(existingContent, getEndMarker(sourceName))
    IN  IF startIdx # -1 /\ endIdx # -1 /\ startIdx < endIdx
        THEN [ok |-> TRUE,
              content |-> substring(existingContent, 0, startIdx)
                          \o indexBlock
                          \o substringFrom(existingContent, endIdx)]
        ELSE IF startIdx # -1 /\ endIdx = -1
        THEN [ok |-> FALSE, content |-> existingContent]
        ELSE [ok |-> TRUE,
              content |-> trimEnd(existingContent) \o <<NL, NL>> \o indexBlock \o <<NL>>]

\* updateContent without the malformed case: a lone start marker gets a new block
updateContentAppendsToMalformed(existingContent, sourceName, indexBlock) ==
    LET startIdx == indexOf(existingContent, getStartMarker(sourceName))
        endIdx == indexOf(existingContent, getEndMarker(sourceName))
    IN  IF startIdx # -1 /\ endIdx # -1 /\ startIdx < endIdx
        THEN [ok |-> TRUE,
              content |-> substring(existingContent, 0, startIdx)
                          \o indexBlock
                          \o substringFrom(existingContent, endIdx + 1)]
        ELSE [ok |-> TRUE,
              content |-> trimEnd(existingContent) \o <<NL, NL>> \o indexBlock \o <<NL>>]

updateContent(existingContent, sourceName, indexBlock) ==
    LET startMarker == getStartMarker(sourceName)
        endMarker == getEndMarker(sourceName)
        startIdx == indexOf(existingContent, startMarker)
        endIdx == indexOf(existingContent, endMarker)
    IN  IF startIdx # -1 /\ endIdx # -1 /\ startIdx < endIdx
        THEN [ok |-> TRUE,
              content |-> substring(existingContent, 0, startIdx)
                          \o indexBlock
                          \o substringFrom(existingContent, endIdx + Len(endMarker))]
        ELSE IF startIdx # -1 /\ endIdx = -1
        THEN [ok |-> FALSE, content |-> existingContent]
        ELSE [ok |-> TRUE,
              content |-> trimEnd(existingContent) \o <<NL, NL>> \o indexBlock \o <<NL>>]

\* the block generateAgentsMd builds for a source
blockOf(sourceName, compressedIndex) ==
    generateIndexBlock(sourceName, formatDisplayName(sourceName),
                       relativePath(sourceName), compressedIndex)

----------------------------------------------------------------------------
(* generator.ts: listSources and removeSource on a file content *)

\* one match of the regular expression START_MARKER_PREFIX([^\s]+)MARKER_SUFFIX:
\* a start marker whose identifier is not empty and holds no white space
IsListMatch(t) ==
    /\ t.k = "start"
    /\ t.id # <<>>
    /\ \A i \in 1..Len(t.id) : t.id[i] # " "

RECURSIVE matchAll(_)
matchAll(content) ==
    IF content = <<>> THEN <<>>
    ELSE (IF IsListMatch(content[1]) THEN <<content[1].id>> ELSE <<>>)
         \o matchAll(Tail(content))

RECURSIVE dropTrailingNewlines(_)
dropTrailingNewlines(s) ==
    IF s # <<>> /\ s[Len(s)] = NL THEN dropTrailingNewlines(SubSeq(s, 1, Len(s) - 1))
    ELSE s

RECURSIVE dropLeadingNewlines(_)
dropLeadingNewlines(s) ==
    IF s # <<>> /\ s[1] = NL THEN dropLeadingNewlines(Tail(s)) ELSE s

\* before.replace(/\n+$/, '\n')
collapseTrailingNewlines(s) ==
    IF s # <<>> /\ s[Len(s)] = NL THEN dropTrailingNewlines(s) \o <<NL>> ELSE s

\* after.replace(/^\n+/, '\n')
collapseLeadingNewlines(s) ==
    IF s # <<>> /\ s[1] = NL THEN <<NL>> \o dropLeadingNewlines(s) ELSE s

\* removeContent with the end marker left behind
removeContentKeepsEndMarker(content, sourceName) ==
    LET startIdx == indexOf(content, getStartMarker(sourceName))
        endIdx == indexOf(content, getEndMarker(sourceName))
    IN  IF startIdx = -1 \/ endIdx = -1
        THEN [found |-> FALSE, content |-> content]
        ELSE [found |-> TRUE,
              content |-> collapseTrailingNewlines(substring(content, 0, startIdx))
                          \o collapseLeadingNewlines(substringFrom(content, endIdx))]

\* the body of removeSource on the content read: whether a block was found, and
\* the new content
removeContent(content, sourceName) ==
    LET startMarker == getStartMarker(sourceName)
        endMarker == getEndMarker(sourceName)
        startIdx == indexOf(content, startMarker)
        endIdx == indexOf(content, endMarker)
    IN  IF startIdx = -1 \/ endIdx = -1
        THEN [found |-> FALSE, content |-> content]
        ELSE [found |-> TRUE,
              content |-> collapseTrailingNewlines(substring(content, 0, startIdx))
                          \o collapseLeadingNewlines(
                                 substringFrom(content, endIdx + Len(endMarker)))]

----------------------------------------------------------------------------
(* Inputs *)

NameA == <<"a">>
NameB == <<"b">>
NameSpaced == <<"a", " ", "b">>

ValidNames == {NameA, NameSpaced}

InvalidNames == {<<" ">>, <<"a", "-", "-", ">">>}

SourceNames == ValidNames \cup InvalidNames

IndexText == <<Tok("index", <<"docs:{a.md}">>)>>

Indexes == {IndexText, <<SP>>}

\* what a host document is made of before the tool touches it
InitTokens ==
    {Tok("start", NameA), Tok("end", NameA), Tok("start", NameB), Tok("end", NameB),
     Tok("text", <<"u">>), NL}

\* the sequences of at most n different elements of S
RECURSIVE Arrangements(_, _)
Arrangements(S, n) ==
    IF n = 0 THEN {<<>>}
    ELSE LET shorter == Arrangements(S, n - 1)
             longest == {r \in shorter : Len(r) = n - 1}
         IN  shorter \cup
             UNION {{Append(q, x) : x \in S \ {q[i] : i \in 1..Len(q)}} : q \in longest}

InitDocs == Arrangements(InitTokens, MaxInitLen)

----------------------------------------------------------------------------
(* The output file and the three commands that read or write it *)

FetchIdle ==
    /\ fetchPc = "idle"
    /\ repository = <<>>
    /\ preferredBranch = ""
    /\ branchesToTry = <<>>
    /\ nextBranch = 1
    /\ requests = <<>>
    /\ responses = <<>>
    /\ fetched = ""
    /\ thrown = [kind |-> "none", message |-> <<>>]

Init ==
    /\ FetchIdle
    /\ DownloadIdle
    /\ ResolveIdle
    /\ IndexIdle
    /\ RunIdle
    /\ NamesIdle
    /\ CliIdle
    /\ fileExists \in BOOLEAN
    /\ doc \in (IF fileExists THEN InitDocs ELSE {<<>>})
    /\ op = "none"
    /\ opId = <<>>
    /\ opIndex = <<>>
    /\ opResult = "none"
    /\ prevDoc = doc
    /\ listed = <<>>

Finish(operation, sourceName, compressedIndex, result) ==
    /\ op' = operation
    /\ opId' = sourceName
    /\ opIndex' = compressedIndex
    /\ opResult' = result
    /\ prevDoc' = doc
    /\ listed' = IF operation = "list" /\ fileExists THEN matchAll(doc) ELSE <<>>
    /\ UNCHANGED <<fetchVars, downloadVars, resolveVars, indexVars, runVars, namesVars, cliVars>>

\* generateAgentsMd(outputPath, sourceName, docsDir, compressedIndex); writeOk is
\* whether fs.mkdir and fs.writeFile succeed
GenerateAgentsMd(sourceName, compressedIndex, writeOk) ==
    LET indexBlock == blockOf(sourceName, compressedIndex)
        hadExistingBlock == includes(doc, getStartMarker(sourceName))
        upd == updateContent(doc, sourceName, indexBlock)
        content == IF fileExists THEN upd.content
                   ELSE createNewFileContent \o indexBlock \o <<NL>>
        result ==
            IF validateSourceName(sourceName) # "ok" THEN validateSourceName(sourceName)
            ELSE IF compressedIndex = <<>> \/ trim(compressedIndex) = <<>> THEN "EmptyIndex"
            ELSE IF fileExists /\ ~upd.ok THEN "MalformedBlock"
            ELSE IF ~writeOk THEN "WriteFailed"
            ELSE IF ~fileExists THEN "created"
            ELSE IF hadExistingBlock THEN "updated"
            ELSE "added"
        written == result \in {"created", "updated", "added"}
    IN  /\ written => Len(content) <= MaxDocLen
        /\ Finish("generate", sourceName, compressedIndex, result)
        /\ doc' = IF written THEN content ELSE doc
        /\ fileExists' = (fileExists \/ written)

\* listSources(outputPath)
ListSources ==
    /\ Finish("list", <<>>, <<>>, "ok")
    /\ UNCHANGED <<fileExists, doc>>

\* removeSource(outputPath, sourceName); writeOk is whether fs.writeFile succeeds
RemoveSource(sourceName, writeOk) ==
    LET rem == removeContent(doc, sourceName)
        result ==
            IF ~fileExists THEN "DocumentNotFound"
            ELSE IF ~rem.found THEN "false"
            ELSE IF ~writeOk THEN "RemoveFailed"
            ELSE "true"
    IN  /\ result = "true" => Len(rem.content) <= MaxDocLen
        /\ Finish("remove", sourceName, <<>>, result)
        /\ doc' = IF result = "true" THEN rem.content ELSE doc
        /\ UNCHANGED fileExists

Next ==
    \/ \E n \in SourceNames, x \in Indexes, w \in BOOLEAN : GenerateAgentsMd(n, x, w)
    \/ ListSources
    \/ \E w \in BOOLEAN : RemoveSource(NameA, w)

Spec == Init /\ [][Next]_vars

----------------------------------------------------------------------------
(* downloader.ts: fetchRepoTree and fetchRepoTreeWithFallback *)
(* A message is the sequence of its words; includes('not found') looks for  *)
(* the two words in a row.                                                  *)

BRANCH_FALLBACKS == <<"main", "master", "develop", "dev">>

Contains(list, x) == \E i \in 1..Len(list) : list[i] = x

RECURSIVE addFallbacks(_, _)
addFallbacks(list, fallbacks) ==
    IF fallbacks = <<>> THEN list
    ELSE addFallbacks(IF Contains(list, Head(fallbacks)) THEN list
                      ELSE Append(list, Head(fallbacks)),
                      Tail(fallbacks))

\* buildBranchesToTry without the includes test
buildBranchesToTryWithDuplicates(preferred) ==
    (IF preferred # "" THEN <<preferred>> ELSE <<>>) \o BRANCH_FALLBACKS

\* the list fetchRepoTreeWithFallback builds before its loop
buildBranchesToTry(preferred) ==
    addFallbacks(IF preferred # "" THEN <<preferred>> ELSE <<>>, BRANCH_FALLBACKS)

\* what a tree request can meet: a tree, an HTTP status, a timeout, or another
\* failure of the transport with the message axios gives it
Responses ==
    {[type |-> "tree", message |-> <<>>],
     [type |-> "404", message |-> <<"Request", "failed", "with", "status", "code", "404">>],
     [type |-> "403", message |-> <<"Request", "failed", "with", "status", "code", "403">>],
     [type |-> "401", message |-> <<"Request", "failed", "with", "status", "code", "401">>],
     [type |-> "timeout", message |-> <<"timeout", "of", "30000ms", "exceeded">>],
     [type |-> "network", message |-> <<"socket", "hang", "up">>],
     [type |-> "network", message |-> <<"proxy", "host", "not", "found">>]}

\* the error fetchRepoTree throws for a failed request
fetchRepoTreeError(repo, branch, response) ==
    IF response.type = "timeout"
    THEN [kind |-> "NetworkTimeout",
          message |-> <<"Connection", "timeout", "while", "fetching">> \o repo]
    ELSE IF response.type = "404"
    THEN [kind |-> "BranchNotFound",
          message |-> <<"Repository", "or", "branch", "not", "found">> \o repo
                      \o <<"branch", branch>>]
    ELSE IF response.type = "403"
    THEN [kind |-> "RateLimited",
          message |-> <<"GitHub", "API", "rate", "limit", "exceeded">>]
    ELSE IF response.type = "401"
    THEN [kind |-> "AuthFailed",
          message |-> <<"GitHub", "authentication", "failed">>]
    ELSE [kind |-> "FetchFailed",
          message |-> <<"Failed", "to", "fetch", "repository">> \o response.message]

\* the test of the catch block: the error fetchRepoTree threw carries no
\* response, so only its message decides
continues(error) == includes(error.message, <<"not", "found">>)

\* repositoryNotFound listing the fallbacks instead of the branches tried
repositoryNotFoundListsFallbacks(repo, tried) ==
    [kind |-> "RepositoryNotFound",
     message |-> <<"Could", "not", "find", "repository">> \o repo
                 \o <<"Tried", "branches">> \o BRANCH_FALLBACKS]

\* the error thrown after the loop; the advice that ends its message is left out
repositoryNotFound(repo, tried) ==
    [kind |-> "RepositoryNotFound",
     message |-> <<"Could", "not", "find", "repository">> \o repo
                 \o <<"Tried", "branches">> \o tried]

Repositories == {<<"owner", "/", "repo">>}

PreferredBranches == {"", "main", "dev", "feature"}

MergerIdle ==
    /\ fileExists = FALSE
    /\ doc = <<>>
    /\ op = "none"
    /\ opId = <<>>
    /\ opIndex = <<>>
    /\ opResult = "none"
    /\ prevDoc = <<>>
    /\ listed = <<>>

FetchInit ==
    /\ MergerIdle
    /\ FetchIdle
    /\ DownloadIdle
    /\ ResolveIdle
    /\ IndexIdle
    /\ RunIdle
    /\ NamesIdle
    /\ CliIdle

\* the call of fetchRepoTreeWithFallback up to its loop
StartFetch(repo, preferred) ==
    /\ fetchPc = "idle"
    /\ fetchPc' = "loop"
    /\ repository' = repo
    /\ preferredBranch' = preferred
    /\ branchesToTry' = buildBranchesToTry(preferred)
    /\ nextBranch' = 1
    /\ UNCHANGED <<requests, responses, fetched, thrown>>
    /\ UNCHANGED <<mergerVars, downloadVars, resolveVars, indexVars, runVars, namesVars, cliVars>>

\* one iteration of the loop: the tree request of the next branch and what
\* follows from its response, the throw after the loop included
TryBranch(response) ==
    LET branch == branchesToTry[nextBranch]
        error == fetchRepoTreeError(repository, branch, response)
    IN  /\ fetchPc = "loop"
        /\ nextBranch <= Len(branchesToTry)
        /\ requests' = Append(requests, branch)
        /\ responses' = Append(responses, response.type)
        /\ IF response.type = "tree"
           THEN /\ fetchPc' = "returned"
                /\ fetched' = branch
                /\ UNCHANGED <<thrown, nextBranch>>
           ELSE IF ~continues(error)
           THEN /\ fetchPc' = "thrown"
                /\ thrown' = error
                /\ UNCHANGED <<fetched, nextBranch>>
           ELSE IF nextBranch < Len(branchesToTry)
           THEN /\ nextBranch' = nextBranch + 1
                /\ UNCHANGED <<fetchPc, fetched, thrown>>
           ELSE /\ fetchPc' = "thrown"
                /\ thrown' = repositoryNotFound(repository, branchesToTry)
                /\ UNCHANGED <<fetched, nextBranch>>
        /\ UNCHANGED <<repository, preferredBranch, branchesToTry>>
        /\ UNCHANGED <<mergerVars, downloadVars, resolveVars, indexVars, runVars, namesVars, cliVars>>

FetchNext ==
    \/ \E r \in Repositories, b \in PreferredBranches : StartFetch(r, b)
    \/ \E response \in Responses : TryBranch(response)

SpecFetch == FetchInit /\ [][FetchNext]_vars

----------------------------------------------------------------------------
(* downloader.ts: the selection and the download loop of downloadDocs       *)
(*                                                                          *)
(* A path is the sequence of the pieces of its string.  "/" is a piece, and *)
(* a name is cut where a prefix or an extension ends: "Docs-old" is         *)
(* <<"Docs", "-old">> and "a.md" is <<"a", ".md">>, so that startsWith,     *)
(* substring and path.extname on the pieces agree with the same calls on    *)
(* the characters.                                                          *)

\* String.prototype.toLowerCase on the pieces that have upper-case letters
lowerPiece(p) ==
    CASE p = "Docs" -> "docs"
      [] p = "Guide" -> "guide"
      [] p = ".MDX" -> ".mdx"
      [] p = "LLMS" -> "llms"
      [] p = ".TXT" -> ".txt"
      [] p = "M" -> "m"
      [] p = "R" -> "r"
      [] OTHER -> p

toLowerCase(s) == [i \in 1..Len(s) |-> lowerPiece(s[i])]

startsWith(s, prefix) == startsWithAt(s, prefix, 0)

endsWith(s, tail) == Len(tail) <= Len(s) /\ startsWithAt(s, tail, Len(s) - Len(tail))

\* the pieces that are a dot followed by letters
ExtensionPieces == {".md", ".mdx", ".MDX", ".markdown", ".txt", ".TXT", ".git"}

RECURSIVE lastIndexOfFrom(_, _, _)
lastIndexOfFrom(s, piece, i) ==
    IF i = 0 THEN -1
    ELSE IF s[i] = piece THEN i - 1
    ELSE lastIndexOfFrom(s, piece, i - 1)

\* String.prototype.lastIndexOf of a one-piece string
lastIndexOf(s, piece) == lastIndexOfFrom(s, piece, Len(s))

\* path.basename
basename(p) == substringFrom(p, lastIndexOf(p, "/") + 1)

\* path.dirname of a path that has a directory part
dirname(p) ==
    IF lastIndexOf(p, "/") <= 0 THEN (IF lastIndexOf(p, "/") = 0 THEN <<"/">> ELSE <<".">>)
    ELSE substring(p, 0, lastIndexOf(p, "/"))

\* path.extname: from the last dot of the base name, unless the name starts with it
extname(p) ==
    LET name == basename(p)
    IN  IF Len(name) >= 2 /\ name[Len(name)] \in ExtensionPieces
        THEN <<name[Len(name)]>>
        ELSE <<>>

RECURSIVE split(_)
\* String.prototype.split('/')
split(s) ==
    IF indexOf(s, <<"/">>) = -1 THEN <<s>>
    ELSE <<substring(s, 0, indexOf(s, <<"/">>))>>
         \o split(substringFrom(s, indexOf(s, <<"/">>) + 1))

RECURSIVE normalizeSegments(_, _)
\* the walk of path.resolve over the segments: ".." leaves a directory,
\* "." and the empty segment stay
normalizeSegments(stack, segments) ==
    IF segments = <<>> THEN stack
    ELSE LET s == Head(segments)
         IN  normalizeSegments(
                 IF s = <<"..">>
                 THEN (IF stack = <<>> THEN <<>> ELSE SubSeq(stack, 1, Len(stack) - 1))
                 ELSE IF s = <<>> \/ s = <<".">> THEN stack
                 ELSE Append(stack, s),
                 Tail(segments))

RECURSIVE joinAbsolute(_)
joinAbsolute(segments) ==
    IF segments = <<>> THEN <<>>
    ELSE <<"/">> \o Head(segments) \o joinAbsolute(Tail(segments))

\* path.resolve(basePath, relativePath) for an absolute basePath
resolve(basePath, relPath) ==
    LET segments == IF relPath # <<>> /\ relPath[1] = "/"
                    THEN normalizeSegments(<<>>, split(relPath))
                    ELSE normalizeSegments(<<>>, split(basePath) \o split(relPath))
    IN  IF segments = <<>> THEN <<"/">> ELSE joinAbsolute(segments)

DOC_FOLDER_NAMES == <<(<<"docs">>), (<<"doc">>), (<<"documentation">>), (<<"guide">>), (<<"guides">>)>>

\* the top-level directories of the tree, lower-cased
rootDirs(t) ==
    {toLowerCase(t[i].path) : i \in {j \in 1..Len(t) :
                                        /\ t[j].type = "tree"
                                        /\ ~includes(t[j].path, <<"/">>)}}

\* Array.prototype.find of the directory whose lower-cased path is docName
findTree(t, docName) ==
    LET found == SelectSeq(t, LAMBDA item :
                     item.type = "tree" /\ toLowerCase(item.path) = docName)
    IN  IF found = <<>> THEN <<>> ELSE found[1].path

RECURSIVE findDocsFolderFrom(_, _)
findDocsFolderFrom(t, names) ==
    IF names = <<>> THEN <<>>
    ELSE IF Head(names) \in rootDirs(t) /\ findTree(t, Head(names)) # <<>>
    THEN findTree(t, Head(names))
    ELSE findDocsFolderFrom(t, Tail(names))

\* findDocsFolder taking the first directory of the tree that has any of the names
findDocsFolderInTreeOrder(t) ==
    LET found == SelectSeq(t, LAMBDA item :
                     /\ item.type = "tree"
                     /\ ~includes(item.path, <<"/">>)
                     /\ \E i \in 1..Len(DOC_FOLDER_NAMES) :
                            toLowerCase(item.path) = DOC_FOLDER_NAMES[i])
    IN  IF found = <<>> THEN <<>> ELSE found[1].path

\* findDocsFolder: the path of the documentation folder, <<>> for null
findDocsFolder(t) == findDocsFolderFrom(t, DOC_FOLDER_NAMES)

\* String.prototype.replace(/^\/|\/$/g, '')
stripSlashes(s) ==
    LET front == IF s # <<>> /\ s[1] = "/" THEN Tail(s) ELSE s
    IN  IF front # <<>> /\ front[Len(front)] = "/"
        THEN SubSeq(front, 1, Len(front) - 1)
        ELSE front

MARKDOWN_EXTENSIONS == {<<".md">>, <<".mdx">>, <<".markdown">>}

\* filterMarkdownFiles testing the prefix without the slash that ends it
filterMarkdownFilesByBarePrefix(t, target) ==
    SelectSeq(t, LAMBDA item :
        /\ item.type = "blob"
        /\ \/ stripSlashes(target) = <<>>
           \/ startsWith(item.path, stripSlashes(target))
        /\ toLowerCase(extname(item.path)) \in MARKDOWN_EXTENSIONS)

\* filterMarkdownFiles
filterMarkdownFiles(t, target) ==
    SelectSeq(t, LAMBDA item :
        /\ item.type = "blob"
        /\ \/ stripSlashes(target) = <<>>
           \/ startsWith(item.path, stripSlashes(target) \o <<"/">>)
           \/ item.path = stripSlashes(target)
        /\ toLowerCase(extname(item.path)) \in MARKDOWN_EXTENSIONS)

\* path.join(process.cwd(), options.docsDir, sourceName) with the docs
\* directory .docs
docsPathOf(sourceName) ==
    joinAbsolute(normalizeSegments(<<>>, split(<<"/", "cwd", "/", ".docs">>) \o split(sourceName)))

\* docsPath of downloadDocs
docsPath == docsPathOf(dlSourceName)

\* the test of sanitizePath: TRUE when it throws
escapes(basePath, relPath) ==
    ~startsWith(resolve(basePath, relPath), resolve(basePath, <<>>))

\* the relative path of a selected file in the loop of downloadDocs
relativeOf(file, target) ==
    IF stripSlashes(target) # <<>>
    THEN substringFrom(file.path, Len(stripSlashes(target)) + 1)
    ELSE file.path

Entry(kind, p) == [type |-> kind, path |-> p]

\* entries of trees that exercise the selection
SelectionEntries ==
    {Entry("tree", <<"Docs">>),
     Entry("tree", <<"Guide">>),
     Entry("tree", <<"src", "/", "docs">>),
     Entry("blob", <<"doc">>),
     Entry("blob", <<"Docs", "/", "a", ".md">>),
     Entry("blob", <<"Docs", "/", "c", ".txt">>),
     Entry("blob", <<"Docs", "-old", "/", "x", ".md">>),
     Entry("blob", <<"Guide", "/", "g", ".markdown">>),
     Entry("blob", <<"README", ".md">>)}

SelectionPaths == {<<>>, <<"/">>, <<"Docs">>, <<"/", "Docs", "/">>, <<"README", ".md">>}

\* entries of trees that exercise the download loop
BatchEntries ==
    {Entry("blob", <<"Docs", "/", "a", ".md">>),
     Entry("blob", <<"Docs", "/", "sub", "/", "b", ".MDX">>),
     Entry("blob", <<"Docs", "/", "..", "/", "name", "-evil", "/", "x", ".md">>),
     Entry("blob", <<"Docs", "/", "..", "/", "..", "/", "secret", ".md">>),
     Entry("blob", <<"README", ".md">>)}

BatchPaths == {<<>>, <<"Docs">>}

Callbacks == {"absent", "returns", "throws"}

\* the tree, options.path and the callback of a call of downloadDocs
DownloadInputs ==
    {[tree |-> t, path |-> p, callback |-> "returns"] :
        t \in Arrangements(SelectionEntries, MaxTreeLen), p \in SelectionPaths}
    \cup
    {[tree |-> t, path |-> p, callback |-> c] :
        t \in Arrangements(BatchEntries, MaxTreeLen), p \in BatchPaths, c \in Callbacks}

\* downloadDocs after fetchRepoTreeWithFallback returned the tree
DownloadInit ==
    /\ MergerIdle
    /\ FetchIdle
    /\ ResolveIdle
    /\ IndexIdle
    /\ RunIdle
    /\ NamesIdle
    /\ CliIdle
    /\ \E input \in DownloadInputs :
           /\ tree = input.tree
           /\ optPath = input.path
           /\ onProgress = input.callback
    /\ dlPc = "tree"
    /\ targetPath = <<>>
    /\ detectedPath = <<>>
    /\ markdownFiles = <<>>
    /\ nextFile = 1
    /\ downloadedCount = 0
    /\ failedFiles = <<>>
    /\ attempts = <<>>
    /\ progressCalls = <<>>
    /\ mkdirs = {}
    /\ writtenFiles = {}
    /\ dlThrown = "none"
    /\ lastOutcome = "none"
    /\ dlSourceName = <<"name">>
    /\ dlResult = NoResult

\* the auto-detection and the selection of downloadDocs, up to its loop
SelectFiles ==
    LET detected == IF optPath = <<"/">> \/ optPath = <<>>
                    THEN findDocsFolder(tree) ELSE <<>>
        target == IF detected # <<>> THEN detected ELSE optPath
        files == filterMarkdownFiles(tree, target)
    IN  /\ dlPc = "tree"
        /\ targetPath' = target
        /\ detectedPath' = detected
        /\ markdownFiles' = files
        /\ IF files = <<>>
           THEN dlPc' = "thrown" /\ dlThrown' = "NoDocumentFiles"
           ELSE dlPc' = "loop" /\ dlThrown' = dlThrown
        /\ UNCHANGED <<tree, optPath, onProgress, nextFile, downloadedCount, failedFiles,
                       attempts, progressCalls, mkdirs, writtenFiles, lastOutcome,
                       dlSourceName, dlResult>>
        /\ UNCHANGED <<mergerVars, fetchVars, resolveVars, indexVars, runVars, namesVars, cliVars>>

\* what the three awaited calls of the try block can meet
Outcomes == {"ok", "mkdirFails", "fetchFails", "writeFails"}

\* one iteration of the loop of downloadDocs and, after the last one, the
\* rest of the function.  fs.writeFile fails on docsPath, which is a directory.
DownloadOne(outcome) ==
    LET file == markdownFiles[nextFile]
        relPath == relativeOf(file, targetPath)
        localPath == resolve(docsPath, relPath)
        localDir == dirname(localPath)
        saved == outcome = "ok" /\ localPath # docsPath
        count == IF saved THEN downloadedCount + 1 ELSE downloadedCount
        caught == ~saved \/ onProgress = "throws"
        last == nextFile = Len(markdownFiles)
    IN  /\ dlPc = "loop"
        /\ nextFile <= Len(markdownFiles)
        /\ IF escapes(docsPath, relPath)
           THEN /\ dlPc' = "thrown"
                /\ dlThrown' = "PathTraversal"
                /\ UNCHANGED <<nextFile, downloadedCount, failedFiles, attempts,
                               progressCalls, mkdirs, writtenFiles, lastOutcome, dlResult>>
           ELSE /\ attempts' = Append(attempts, relPath)
                /\ lastOutcome' = outcome
                /\ mkdirs' = mkdirs \cup {localDir}
                /\ writtenFiles' = IF saved THEN writtenFiles \cup {localPath}
                                   ELSE writtenFiles
                /\ downloadedCount' = count
                /\ progressCalls' =
                       IF saved /\ onProgress # "absent"
                       THEN Append(progressCalls,
                                   [current |-> count, total |-> Len(markdownFiles),
                                    file |-> relPath])
                       ELSE progressCalls
                /\ failedFiles' = IF caught THEN Append(failedFiles, relPath)
                                  ELSE failedFiles
                /\ nextFile' = nextFile + 1
                /\ IF ~last
                   THEN UNCHANGED <<dlPc, dlThrown, dlResult>>
                   ELSE IF count = 0
                   THEN dlPc' = "thrown" /\ dlThrown' = "DownloadFailed"
                        /\ UNCHANGED dlResult
                   ELSE /\ dlPc' = "returned"
                        /\ dlResult' = [totalFiles |-> Len(markdownFiles),
                                        downloadedFiles |-> count,
                                        docsPath |-> docsPath,
                                        detectedPath |-> detectedPath]
                        /\ UNCHANGED dlThrown
        /\ UNCHANGED <<tree, optPath, onProgress, targetPath, detectedPath, markdownFiles,
                       dlSourceName>>
        /\ UNCHANGED <<mergerVars, fetchVars, resolveVars, indexVars, runVars, namesVars, cliVars>>

DownloadNext ==
    \/ SelectFiles
    \/ \E outcome \in Outcomes : DownloadOne(outcome)

SpecDownload == DownloadInit /\ [][DownloadNext]_vars

----------------------------------------------------------------------------
(* index.ts, downloader.ts, llms-txt.ts: the dispatch on the source argument *)

RECURSIVE trimPieces(_)
\* String.prototype.trim on pieces; a blank is the piece " "
trimPieces(s) ==
    IF s # <<>> /\ s[1] = " " THEN trimPieces(Tail(s))
    ELSE IF s # <<>> /\ s[Len(s)] = " " THEN trimPieces(SubSeq(s, 1, Len(s) - 1))
    ELSE s

\* the pieces that start with 'http'
Schemes == {"https://", "http://"}

\* the match of /github\.com\/([^\/]+)\/([^\/]+)(?:\/tree\/([^\/]+))?/
matchGitHub(cleanUrl) ==
    LET at == indexOf(cleanUrl, <<"github.com", "/">>)
        segments == split(substringFrom(cleanUrl, at + 2))
    IN  IF at = -1 \/ Len(segments) < 2 \/ segments[1] = <<>> \/ segments[2] = <<>>
        THEN NotParsed
        ELSE [ok |-> TRUE,
              owner |-> segments[1],
              repo |-> segments[2],
              branch |-> IF Len(segments) >= 4 /\ segments[3] = <<"tree">>
                         THEN segments[4] ELSE <<>>]

\* parseGitHubUrl; ok is FALSE when it throws
parseGitHubUrl(url) ==
    LET trimmed == trimPieces(url)
        withScheme == IF trimmed # <<>> /\ trimmed[1] \in Schemes
                      THEN trimmed ELSE <<"https://">> \o trimmed
        withoutGit == IF endsWith(withScheme, <<".git">>)
                      THEN SubSeq(withScheme, 1, Len(withScheme) - 1) ELSE withScheme
        cleanUrl == IF endsWith(withoutGit, <<"/">>)
                    THEN SubSeq(withoutGit, 1, Len(withoutGit) - 1) ELSE withoutGit
    IN  matchGitHub(cleanUrl)

\* isLlmsTxtUrl
isLlmsTxtUrl(url) ==
    \/ endsWith(toLowerCase(url), <<"/", "llms", ".txt">>)
    \/ endsWith(toLowerCase(url), <<"/", "llm", ".txt">>)
    \/ endsWith(toLowerCase(url), <<"llms", ".txt">>)
    \/ endsWith(toLowerCase(url), <<"llm", ".txt">>)

\* getSourceType
getSourceType(src) ==
    IF includes(src, <<"github.com">>) THEN "github"
    ELSE IF isLlmsTxtUrl(src) THEN "llms-txt"
    ELSE "unknown"

Owners == {"owner", "o2"}

Repos == {"repo", "r2"}

\* the source arguments: a scheme or none, a host, owner and repo or none,
\* ".git" or not, what follows, a slash at the end or none
Sources ==
    {scheme \o host \o ownerRepo \o git \o rest \o slash :
        scheme \in {<<>>, <<"https://">>, <<"http://">>},
        host \in {<<"github.com">>, <<"example.com">>},
        ownerRepo \in {<<>>} \cup {<<"/", o, "/", r>> : o \in Owners, r \in Repos},
        git \in {<<>>, <<".git">>},
        rest \in {<<>>, <<"/", "tree", "/", "dev">>, <<"/", "llms", ".txt">>,
                  <<"/", "LLMS", ".TXT">>, <<"/", "llm", ".txt">>,
                  <<"/", "readme", ".txt">>},
        slash \in {<<>>, <<"/">>}}

ResolveInit ==
    /\ MergerIdle
    /\ FetchIdle
    /\ DownloadIdle
    /\ IndexIdle
    /\ RunIdle
    /\ NamesIdle
    /\ CliIdle
    /\ srcPc = "given"
    /\ source \in Sources
    /\ sourceType = "none"
    /\ parsed = NotParsed
    /\ route = "none"

\* the main command up to the call of downloadDocs or downloadLlmsTxt
Dispatch ==
    LET type == getSourceType(source)
        result == IF type = "github" THEN parseGitHubUrl(source) ELSE NotParsed
    IN  /\ srcPc = "given"
        /\ srcPc' = "resolved"
        /\ sourceType' = type
        /\ parsed' = result
        /\ route' = IF type = "github"
                    THEN (IF result.ok THEN "downloadDocs" ELSE "InvalidSource")
                    ELSE IF type = "llms-txt" THEN "downloadLlmsTxt"
                    ELSE "InvalidSource"
        /\ UNCHANGED source
        /\ UNCHANGED <<mergerVars, fetchVars, downloadVars, indexVars, runVars, namesVars, cliVars>>

ResolveNext == Dispatch

SpecResolve == ResolveInit /\ [][ResolveNext]_vars

----------------------------------------------------------------------------
(* The indexer: scanDirectory, groupByDirectory, generateCompressedIndex,   *)
(* createIndex                                                              *)

\* the UTF-16 code units of a piece
codeUnitsOf(p) ==
    CASE p = "/" -> <<47>>
      [] p = "a" -> <<97>>
      [] p = "b" -> <<98>>
      [] p = "c" -> <<99>>
      [] p = "m" -> <<109>>
      [] p = "p" -> <<112>>
      [] p = "x" -> <<120>>
      [] p = "z" -> <<122>>
      [] p = "api" -> <<97, 112, 105>>
      [] p = "sub" -> <<115, 117, 98>>
      [] p = "llms" -> <<108, 108, 109, 115>>
      [] p = "llm" -> <<108, 108, 109>>
      [] p = "node_modules" -> <<110, 111, 100, 101, 95, 109, 111, 100, 117, 108, 101, 115>>
      [] p = ".md" -> <<46, 109, 100>>
      [] p = ".mdx" -> <<46, 109, 100, 120>>
      [] p = ".MDX" -> <<46, 77, 68, 88>>
      [] p = ".txt" -> <<46, 116, 120, 116>>
      [] p = ".git" -> <<46, 103, 105, 116>>
      [] p = ".hidden" -> <<46, 104, 105, 100, 100, 101, 110>>

RECURSIVE codeUnits(_)
\* the code units of a string
codeUnits(s) == IF s = <<>> THEN <<>> ELSE codeUnitsOf(Head(s)) \o codeUnits(Tail(s))

RECURSIVE lessUnits(_, _)
lessUnits(a, b) ==
    IF b = <<>> THEN FALSE
    ELSE IF a = <<>> THEN TRUE
    ELSE IF Head(a) # Head(b) THEN Head(a) < Head(b)
    ELSE lessUnits(Tail(a), Tail(b))

\* the order of Array.prototype.sort without a comparator
lessCodeUnits(a, b) == lessUnits(codeUnits(a), codeUnits(b))

\* String.prototype.localeCompare on lower-case letters, '.', '/' and '_',
\* where the collation order is the order of the code units
localeCompare(a, b) == IF a = b THEN 0 ELSE IF lessCodeUnits(a, b) THEN -1 ELSE 1

\* the comparator of sortedDirs
compareDirs(a, b) ==
    IF a = <<>> THEN -1
    ELSE IF b = <<>> THEN 1
    ELSE localeCompare(a, b)

\* the comparison of a sort: of the directory keys or of the file names
compare(what, a, b) ==
    IF what = "dirs" THEN compareDirs(a, b)
    ELSE IF lessCodeUnits(a, b) THEN -1 ELSE IF a = b THEN 0 ELSE 1

RECURSIVE insert(_, _, _)
insert(what, sorted, x) ==
    IF sorted = <<>> THEN <<x>>
    ELSE IF compare(what, x, Head(sorted)) < 0 THEN <<x>> \o sorted
    ELSE <<Head(sorted)>> \o insert(what, Tail(sorted), x)

RECURSIVE sort(_, _)
\* Array.prototype.sort
sort(what, s) ==
    IF s = <<>> THEN <<>>
    ELSE insert(what, sort(what, SubSeq(s, 1, Len(s) - 1)), s[Len(s)])

RECURSIVE join(_, _)
\* Array.prototype.join
join(strings, separator) ==
    IF strings = <<>> THEN <<>>
    ELSE IF Len(strings) = 1 THEN strings[1]
    ELSE strings[1] \o <<separator>> \o join(Tail(strings), separator)

\* entry.name.startsWith('.')
startsWithDot(name) ==
    name # <<>> /\ name[1] \in ExtensionPieces \cup {".hidden", ".", ".."}

\* scanDirectory skipping node_modules only
scannedInHiddenDirectories(file) ==
    /\ \A i \in 1..(Len(split(file)) - 1) : split(file)[i] # <<"node_modules">>
    /\ toLowerCase(extname(file)) \in MARKDOWN_EXTENSIONS

\* a file that scanDirectory reaches and keeps: no directory above it is
\* hidden or node_modules, and its extension is one of the three
scanned(file) ==
    /\ \A i \in 1..(Len(split(file)) - 1) :
           /\ ~startsWithDot(split(file)[i])
           /\ split(file)[i] # <<"node_modules">>
    /\ toLowerCase(extname(file)) \in MARKDOWN_EXTENSIONS

\* scanDirectory: the relative paths of the files kept, in the order of the walk
scanDirectory(files) == SelectSeq(files, scanned)

\* the key of the directory of a file in groupByDirectory
dirKey(file) == IF dirname(file) = <<".">> THEN <<>> ELSE dirname(file)

RECURSIVE groupByDirectory(_)
\* groupByDirectory: the keys in the order of their insertion, each with its
\* file names in the order they were pushed
groupByDirectory(files) ==
    IF files = <<>> THEN <<>>
    ELSE LET grouped == groupByDirectory(SubSeq(files, 1, Len(files) - 1))
             file == files[Len(files)]
         IN  IF \E i \in 1..Len(grouped) : grouped[i].dir = dirKey(file)
             THEN [i \in 1..Len(grouped) |->
                      IF grouped[i].dir = dirKey(file)
                      THEN [dir |-> grouped[i].dir,
                            files |-> Append(grouped[i].files, basename(file))]
                      ELSE grouped[i]]
             ELSE Append(grouped, [dir |-> dirKey(file), files |-> <<basename(file)>>])

\* grouped[dir]
filesOf(grouped, dir) == (CHOOSE g \in {grouped[i] : i \in 1..Len(grouped)} : g.dir = dir).files

\* one line of the index
indexLine(rootName, dir, files) ==
    (IF dir = <<>> THEN rootName ELSE rootName \o <<"/">> \o dir)
    \o <<":{">> \o join(files, ",") \o <<"}">>

\* generateCompressedIndex without the sort of the file names
generateCompressedIndexInWalkOrder(grouped, rootPath) ==
    LET sortedDirs == sort("dirs", [i \in 1..Len(grouped) |-> grouped[i].dir])
    IN  join([i \in 1..Len(sortedDirs) |->
                 indexLine(basename(rootPath), sortedDirs[i],
                           filesOf(grouped, sortedDirs[i]))], "\n")

\* generateCompressedIndex
generateCompressedIndex(grouped, rootPath) ==
    LET sortedDirs == sort("dirs", [i \in 1..Len(grouped) |-> grouped[i].dir])
    IN  join([i \in 1..Len(sortedDirs) |->
                 indexLine(basename(rootPath), sortedDirs[i],
                           sort("files", filesOf(grouped, sortedDirs[i])))], "\n")

\* createIndex on an existing directory: the index, or the failure thrown
createIndex(files, rootPath) ==
    IF scanDirectory(files) = <<>>
    THEN [ok |-> FALSE, index |-> <<>>, error |-> "NoDocumentFiles"]
    ELSE [ok |-> TRUE,
          index |-> generateCompressedIndex(groupByDirectory(scanDirectory(files)),
                                            rootPath),
          error |-> "none"]

\* the files a documentation directory can hold
IndexFiles ==
    {<<"a", ".md">>, <<"z", ".md">>, <<"m", ".mdx">>,
     <<"sub", "/", "b", ".MDX">>, <<"sub", "/", "a", ".md">>,
     <<"api", "/", "x", ".md">>,
     <<"llms", ".txt">>,
     <<"node_modules", "/", "p", ".md">>,
     <<".git", "/", "c", ".md">>,
     <<".hidden", ".md">>}

IndexInit ==
    /\ MergerIdle
    /\ FetchIdle
    /\ DownloadIdle
    /\ ResolveIdle
    /\ RunIdle
    /\ NamesIdle
    /\ CliIdle
    /\ ixPc = "ready"
    /\ dirFiles \in Arrangements(IndexFiles, MaxWalkLen)
    /\ ixResult = <<>>
    /\ ixThrown = "none"

\* createIndex(docsPath)
CreateIndex ==
    /\ ixPc = "ready"
    /\ ixPc' = IF createIndex(dirFiles, docsPath).ok THEN "returned" ELSE "thrown"
    /\ ixResult' = createIndex(dirFiles, docsPath).index
    /\ ixThrown' = createIndex(dirFiles, docsPath).error
    /\ UNCHANGED dirFiles
    /\ UNCHANGED <<mergerVars, fetchVars, downloadVars, resolveVars, runVars, namesVars, cliVars>>

IndexNext == CreateIndex

SpecIndex == IndexInit /\ [][IndexNext]_vars

----------------------------------------------------------------------------
(* index.ts and llms-txt.ts: the main command on an llms.txt source *)

\* new URL(url).hostname of the hosts of the sources, in characters
hostname(host) ==
    CASE host = "ex.com" -> <<"e", "x", ".", "c", "o", "m">>
      [] host = "www.ex.com" -> <<"w", "w", "w", ".", "e", "x", ".", "c", "o", "m">>
      [] host = "my_site.io" -> <<"m", "y", "_", "s", "i", "t", "e", ".", "i", "o">>
      [] host = "a--b.dev" -> <<"a", "-", "-", "b", ".", "d", "e", "v">>
      [] host = "docs.x1.io" -> <<"d", "o", "c", "s", ".", "x", "1", ".", "i", "o">>
      [] OTHER -> <<>>

\* the characters of the class [a-z0-9-]
NameCharacters ==
    {"a", "b", "c", "d", "e", "f", "g", "h", "i", "j", "k", "l", "m", "n", "o", "p", "q",
     "r", "s", "t", "u", "v", "w", "x", "y", "z", "-",
     "0", "1", "2", "3", "4", "5", "6", "7", "8", "9"}

\* .replace(/[^a-z0-9-]/g, '-')
replaceOthers(s) == [i \in 1..Len(s) |-> IF s[i] \in NameCharacters THEN s[i] ELSE "-"]

RECURSIVE collapseDashes(_)
\* .replace(/-+/g, '-')
collapseDashes(s) ==
    IF Len(s) <= 1 THEN s
    ELSE IF s[1] = "-" /\ s[2] = "-" THEN collapseDashes(Tail(s))
    ELSE <<s[1]>> \o collapseDashes(Tail(s))

\* generateSourceName(owner, repo); the characters of repo are the elements
generateSourceName(owner, repo) ==
    replaceOthers(toLowerCase(repo \o <<"-", "d", "o", "c", "s">>))

\* urlObj.hostname.replace(/^www\./, '').split('.')[0]
firstLabel(h) ==
    LET bare == IF startsWith(h, <<"w", "w", "w", ".">>) THEN substringFrom(h, 4) ELSE h
    IN  IF indexOf(bare, <<".">>) = -1 THEN bare ELSE substring(bare, 0, indexOf(bare, <<".">>))

\* generateLlmsSourceName(url): new URL throws for a source with no scheme
generateLlmsSourceName(url) ==
    IF url = <<>> \/ url[1] \notin Schemes
    THEN <<"l", "l", "m", "s", "-", "t", "x", "t">>
    ELSE collapseDashes(replaceOthers(toLowerCase(
             firstLabel(hostname(url[2])) \o <<"-", "l", "l", "m", "s">>)))

\* the name of the file downloadLlmsTxt writes
manifestFile(url) ==
    IF includes(toLowerCase(url), <<"llms", ".txt">>)
    THEN <<"llms", ".txt">> ELSE <<"llm", ".txt">>

\* what axios.get and fs.writeFile of downloadLlmsTxt can meet: a body of
\* text, a body that starts with '#', a blank body, a 404, a timeout, a
\* failed write
ManifestResponses == {"text", "heading", "blank", "404", "timeout", "writeFails"}

\* the failure downloadLlmsTxt throws for a response
manifestError(response) ==
    CASE response = "blank" -> "EmptyManifest"
      [] response = "404" -> "ManifestNotFound"
      [] response = "timeout" -> "NetworkTimeout"
      [] response = "writeFails" -> "DownloadFailed"
      [] OTHER -> "none"

\* generateAgentsMd on a file content: its outcome and the content it writes
generateAgentsMd(exists, content, sourceName, index, writeOk) ==
    LET upd == updateContent(content, sourceName, blockOf(sourceName, index))
        result ==
            IF validateSourceName(sourceName) # "ok" THEN validateSourceName(sourceName)
            ELSE IF index = <<>> \/ trim(index) = <<>> THEN "EmptyIndex"
            ELSE IF exists /\ ~upd.ok THEN "MalformedBlock"
            ELSE IF ~writeOk THEN "WriteFailed"
            ELSE IF ~exists THEN "created"
            ELSE IF includes(content, getStartMarker(sourceName)) THEN "updated"
            ELSE "added"
    IN  [result |-> result,
         content |-> IF result \in {"created", "updated", "added"}
                     THEN (IF exists THEN upd.content
                           ELSE createNewFileContent \o blockOf(sourceName, index) \o <<NL>>)
                     ELSE content]

ManifestSources ==
    {<<"https://", "ex.com", "/", "llms", ".txt">>,
     <<"https://", "www.ex.com", "/", "docs", "/", "LLM", ".TXT">>,
     <<"ex.com", "/", "llms", ".txt">>}

\* the files found in the destination directory before the run
EarlierFiles == {<<"a", ".md">>, <<"sub", "/", "b", ".MDX">>, <<"llms", ".txt">>}

\* the output file before the run
HostDocs ==
    {<<>>, <<Tok("text", <<"u">>), NL>>,
     <<Tok("start", <<"e", "x", "-", "l", "l", "m", "s">>)>>}

ManifestInit ==
    /\ FetchIdle
    /\ DownloadIdle
    /\ ResolveIdle
    /\ fileExists \in BOOLEAN
    /\ doc \in (IF fileExists THEN HostDocs ELSE {<<>>})
    /\ op = "none"
    /\ opId = <<>>
    /\ opIndex = <<>>
    /\ opResult = "none"
    /\ prevDoc = doc
    /\ listed = <<>>
    /\ ixPc = "idle"
    /\ dirFiles \in Arrangements(EarlierFiles, MaxWalkLen)
    /\ ixResult = <<>>
    /\ ixThrown = "none"
    /\ runPc = "start"
    /\ runSource \in ManifestSources
    /\ runError = "none"
    /\ NamesIdle
    /\ CliIdle

\* downloadLlmsTxt(source, options, callback) with no --source-name
DownloadLlmsTxt(response) ==
    /\ runPc = "start"
    /\ IF runSource[1] \notin Schemes
       THEN /\ runPc' = "failed"
            /\ runError' = "InvalidUrl"
            /\ UNCHANGED dirFiles
       ELSE IF manifestError(response) # "none"
       THEN /\ runPc' = "failed"
            /\ runError' = manifestError(response)
            /\ UNCHANGED dirFiles
       ELSE /\ runPc' = "downloaded"
            /\ runError' = "none"
            /\ dirFiles' = IF \E i \in 1..Len(dirFiles) : dirFiles[i] = manifestFile(runSource)
                           THEN dirFiles
                           ELSE Append(dirFiles, manifestFile(runSource))
    /\ UNCHANGED <<runSource, ixPc, ixResult, ixThrown>>
    /\ UNCHANGED <<mergerVars, fetchVars, downloadVars, resolveVars, namesVars, cliVars>>

\* the rest of the main command: addToGitignore (which never throws),
\* createIndex, getIndexStats, generateAgentsMd; writeOk is whether the
\* output file can be written
FinishRun(writeOk) ==
    LET sourceName == generateLlmsSourceName(runSource)
        indexed == createIndex(dirFiles, docsPathOf(sourceName))
        index == <<Tok("index", indexed.index)>>
        generated == generateAgentsMd(fileExists, doc, sourceName, index, writeOk)
        written == generated.result \in {"created", "updated", "added"}
    IN  /\ runPc = "downloaded"
        /\ ixPc' = IF indexed.ok THEN "returned" ELSE "thrown"
        /\ ixResult' = indexed.index
        /\ ixThrown' = indexed.error
        /\ IF ~indexed.ok
           THEN /\ runPc' = "failed"
                /\ runError' = indexed.error
                /\ UNCHANGED mergerVars
           ELSE /\ runPc' = IF written THEN "done" ELSE "failed"
                /\ runError' = IF written THEN "none" ELSE generated.result
                /\ op' = "generate"
                /\ opId' = sourceName
                /\ opIndex' = index
                /\ opResult' = generated.result
                /\ prevDoc' = doc
                /\ listed' = <<>>
                /\ doc' = generated.content
                /\ fileExists' = (fileExists \/ written)
        /\ UNCHANGED <<runSource, dirFiles>>
        /\ UNCHANGED <<fetchVars, downloadVars, resolveVars, namesVars, cliVars>>

ManifestNext ==
    \/ \E response \in ManifestResponses : DownloadLlmsTxt(response)
    \/ \E writeOk \in BOOLEAN : FinishRun(writeOk)

SpecManifest == ManifestInit /\ [][ManifestNext]_vars

----------------------------------------------------------------------------
(* downloader.ts and llms-txt.ts: the identifiers generated for sources *)

RepoOwners == {<<"a">>, <<"b">>}

\* names of repositories: short ones, one with a capital and a dot, and names
\* of MAX_SOURCE_NAME characters (the longest GitHub allows) and of five less
RepoNames ==
    {<<"d", "o", "c", "s">>,
     <<"M", "y", ".", "R">>,
     <<"m", "y", "-", "r">>,
     [i \in 1..MAX_SOURCE_NAME |-> "a"],
     [i \in 1..(MAX_SOURCE_NAME - 5) |-> "a"]}

RepoSources == {[owner |-> o, repo |-> r] : o \in RepoOwners, r \in RepoNames}

NameUrls ==
    {<<"https://", h, "/", "llms", ".txt">> :
         h \in {"ex.com", "www.ex.com", "my_site.io", "a--b.dev", "docs.x1.io"}}
    \cup {<<"ex.com", "/", "llms", ".txt">>}

NamesInit ==
    /\ MergerIdle
    /\ FetchIdle
    /\ DownloadIdle
    /\ ResolveIdle
    /\ IndexIdle
    /\ RunIdle
    /\ nmPc = "start"
    /\ nmFirst \in RepoSources
    /\ nmSecond \in RepoSources
    /\ nmUrl \in NameUrls
    /\ nmNames = NoNames
    /\ CliIdle

\* options.sourceName || generateSourceName(owner, repo) with no --source-name
NameRepositories ==
    /\ nmPc = "start"
    /\ nmPc' = "repositories"
    /\ nmNames' = [nmNames EXCEPT !.first = generateSourceName(nmFirst.owner, nmFirst.repo),
                                  !.second = generateSourceName(nmSecond.owner, nmSecond.repo)]
    /\ UNCHANGED <<nmFirst, nmSecond, nmUrl>>
    /\ UNCHANGED <<mergerVars, fetchVars, downloadVars, resolveVars, indexVars, runVars,
                   cliVars>>

\* options.sourceName || generateLlmsSourceName(url) with no --source-name
NameManifest ==
    /\ nmPc = "repositories"
    /\ nmPc' = "done"
    /\ nmNames' = [nmNames EXCEPT !.llms = generateLlmsSourceName(nmUrl)]
    /\ UNCHANGED <<nmFirst, nmSecond, nmUrl>>
    /\ UNCHANGED <<mergerVars, fetchVars, downloadVars, resolveVars, indexVars, runVars,
                   cliVars>>

NamesNext == NameRepositories \/ NameManifest

SpecNames == NamesInit /\ [][NamesNext]_vars

----------------------------------------------------------------------------
(* index.ts and downloader.ts: the main command on a repository source *)

\* the greatest number of runs of the command on the same source
MaxRuns == 2

\* the source arguments: a repository, a branch of it, and no source at all
RunSources ==
    {<<"https://", "github.com", "/", "o", "/", "r">>,
     <<"https://", "github.com", "/", "o", "/", "r", "/", "tree", "/", "dev">>,
     <<"docs">>}

\* the --branch option, "none" when it is not given
RunBranches == {"none", "main", "feature"}

\* the --source-name option, <<>> when it is not given
RunNames == {<<>>, <<"..", "/", "out">>, <<"a", "-", "-", ">">>}

\* the output file before the first run: none, a text, a start marker of the
\* generated name with no end marker
RunDocs ==
    {<<>>, <<Tok("text", <<"u">>), NL>>, <<Tok("start", <<"r", "-", "d", "o", "c", "s">>)>>}

\* the trees of the repository
RunTrees ==
    {<<Entry("blob", <<"Docs", "/", "a", ".md">>), Entry("blob", <<"Docs", "/", "b", ".md">>)>>,
     <<Entry("blob", <<"Docs", "/", "a", ".md">>)>>,
     <<Entry("blob", <<"Docs", "/", "node_modules", "/", "p", ".md">>)>>,
     <<Entry("blob", <<"Docs", "/", "..", "/", "..", "/", "secret", ".md">>)>>,
     <<Entry("tree", <<"Docs">>)>>}

\* what a tree request meets in a run
RunResponses == {r \in Responses : r.type \in {"tree", "404", "timeout"}}

\* the arguments of the command: every source with every --branch and no
\* --source-name, and the repository with every --source-name and every
\* output file
RunInputs ==
    {[source |-> s, branch |-> b, name |-> <<>>, doc |-> <<Tok("text", <<"u">>), NL>>] :
         s \in RunSources, b \in RunBranches}
    \cup
    {[source |-> <<"https://", "github.com", "/", "o", "/", "r">>, branch |-> "none",
      name |-> n, doc |-> d] : n \in RunNames, d \in RunDocs}

\* what the awaited calls of the loop meet in a run
RunOutcomes == {"ok", "fetchFails"}

\* what fs.writeFile of generateAgentsMd can meet: the file is written; it
\* cannot be opened (EACCES); it is opened with the flag 'w', which truncates
\* it, and no byte can be written (ENOSPC)
WriteOutcomes == {"written", "refused", "diskFull"}

\* options.branch: commander gives 'main' when --branch is absent
branchOption == IF optBranch = "none" THEN "main" ELSE optBranch

\* the branch of the URL as parseGitHubUrl returns it
urlBranch == IF parsed.branch = <<>> THEN "" ELSE parsed.branch[1]

\* preferredBranch of downloadDocs
preferredBranchOf(branch, fromUrl) ==
    IF branch # "main" THEN branch ELSE (IF fromUrl # "" THEN fromUrl ELSE branch)

\* exitStatusOf with a batch of no download taken for a success
exitStatusOfDownloads(error) == IF error \in {"none", "DownloadFailed"} THEN 0 ELSE 1

\* the status the process ends with: process.exit(1) in the catch block, 0
\* when nothing was thrown
exitStatusOf(error) == IF error = "none" THEN 0 ELSE 1

RECURSIVE withWritten(_, _, _)
\* the files below root after the files of paths were written
withWritten(files, paths, root) ==
    IF paths = <<>> THEN files
    ELSE LET p == Head(paths)
             below == Len(p) > Len(root) + 1 /\ SubSeq(p, 1, Len(root) + 1) = root \o <<"/">>
             rel == SubSeq(p, Len(root) + 2, Len(p))
         IN  withWritten(IF below /\ ~Contains(files, rel) THEN Append(files, rel) ELSE files,
                         Tail(paths), root)

\* the local paths of the files the loop wrote, in the order of the attempts
writtenPaths ==
    SelectSeq([i \in 1..Len(attempts) |-> resolve(docsPath, attempts[i])],
              LAMBDA p : p \in writtenFiles)

RunInit ==
    /\ FetchIdle
    /\ DownloadIdle
    /\ IndexIdle
    /\ NamesIdle
    /\ \E input \in RunInputs :
           /\ doc = input.doc
           /\ source = input.source
           /\ optBranch = input.branch
           /\ optName = input.name
    /\ fileExists = (doc # <<>>)
    /\ op = "none"
    /\ opId = <<>>
    /\ opIndex = <<>>
    /\ opResult = "none"
    /\ prevDoc = doc
    /\ listed = <<>>
    /\ srcPc = "given"
    /\ sourceType = "none"
    /\ parsed = NotParsed
    /\ route = "none"
    /\ runPc = "running"
    /\ runSource = source
    /\ runError = "none"
    /\ exitStatus = -1
    /\ runs = 1

\* downloadDocs up to fetchRepoTreeWithFallback: the source name, docsPath and
\* the directory; mkdirOk is whether fs.mkdir works
BeginDownload(p, mkdirOk) ==
    LET name == IF optName # <<>> THEN optName
                ELSE generateSourceName(parsed.owner, parsed.repo)
    IN  /\ runPc = "running"
        /\ srcPc = "resolved"
        /\ route = "downloadDocs"
        /\ dlPc = "idle"
        /\ dlSourceName' = name
        /\ optPath' = p
        /\ onProgress' = "returns"
        /\ IF mkdirOk
           THEN dlPc' = "started" /\ mkdirs' = {docsPathOf(name)} /\ UNCHANGED dlThrown
           ELSE dlPc' = "thrown" /\ dlThrown' = "DocsDirectoryFailed" /\ UNCHANGED mkdirs
        /\ UNCHANGED <<tree, targetPath, detectedPath, markdownFiles, nextFile, downloadedCount,
                       failedFiles, attempts, progressCalls, writtenFiles, lastOutcome,
                       dlResult>>
        /\ UNCHANGED <<mergerVars, fetchVars, resolveVars, indexVars, runVars, namesVars,
                       cliVars>>

\* the call fetchRepoTreeWithFallback(owner, repo, preferredBranch)
FetchTree ==
    /\ dlPc = "started"
    /\ StartFetch(parsed.owner \o <<"/">> \o parsed.repo,
                  preferredBranchOf(branchOption, urlBranch))

\* one request of the loop of fetchRepoTreeWithFallback in a run: the
\* repository answers the first request, or it has none of the branches
FetchBranch(response) ==
    /\ response.type # "404" => requests = <<>>
    /\ TryBranch(response)

\* fetchRepoTreeWithFallback returned the tree t
TreeFetched(t) ==
    /\ dlPc = "started"
    /\ fetchPc = "returned"
    /\ dlPc' = "tree"
    /\ tree' = t
    /\ UNCHANGED <<optPath, onProgress, targetPath, detectedPath, markdownFiles, nextFile,
                   downloadedCount, failedFiles, attempts, progressCalls, mkdirs, writtenFiles,
                   dlThrown, lastOutcome, dlSourceName, dlResult>>
    /\ UNCHANGED <<mergerVars, fetchVars, resolveVars, indexVars, runVars, namesVars, cliVars>>

\* the main command after downloadDocs returned: addToGitignore (which never
\* throws), createIndex, getIndexStats, generateAgentsMd, and the end of the
\* process
FinishDownloadRun(write) ==
    LET files == withWritten(dirFiles, writtenPaths, docsPath)
        indexed == createIndex(files, docsPath)
        index == <<Tok("index", indexed.index)>>
        generated == generateAgentsMd(fileExists, doc, dlSourceName, index, write = "written")
        written == generated.result \in {"created", "updated", "added"}
        error == IF ~indexed.ok THEN indexed.error
                 ELSE IF written THEN "none" ELSE generated.result
    IN  /\ runPc = "running"
        /\ dlPc = "returned"
        /\ dirFiles' = files
        /\ ixPc' = IF indexed.ok THEN "returned" ELSE "thrown"
        /\ ixResult' = indexed.index
        /\ ixThrown' = indexed.error
        /\ runPc' = IF error = "none" THEN "done" ELSE "failed"
        /\ runError' = error
        /\ exitStatus' = exitStatusOf(error)
        /\ IF ~indexed.ok
           THEN UNCHANGED mergerVars
           ELSE /\ op' = "generate"
                /\ opId' = dlSourceName
                /\ opIndex' = index
                /\ opResult' = generated.result
                /\ prevDoc' = doc
                /\ listed' = <<>>
                /\ doc' = IF generated.result = "WriteFailed" /\ write = "diskFull"
                          THEN <<>> ELSE generated.content
                /\ fileExists' = (fileExists \/ written)
        /\ UNCHANGED <<runSource, optBranch, optName, runs>>
        /\ UNCHANGED <<fetchVars, downloadVars, resolveVars, namesVars>>

\* the catch block of the main command: what parseGitHubUrl, the unknown
\* source type or downloadDocs threw ends the process
CatchFailure ==
    LET error == IF route = "InvalidSource" THEN "InvalidSource"
                 ELSE IF fetchPc = "thrown" THEN thrown.kind
                 ELSE dlThrown
    IN  /\ runPc = "running"
        /\ route = "InvalidSource" \/ fetchPc = "thrown" \/ dlPc = "thrown"
        /\ runPc' = "failed"
        /\ runError' = error
        /\ exitStatus' = exitStatusOf(error)
        /\ dirFiles' = withWritten(dirFiles, writtenPaths, docsPath)
        /\ UNCHANGED <<ixPc, ixResult, ixThrown, runSource, optBranch, optName, runs>>
        /\ UNCHANGED <<mergerVars, fetchVars, downloadVars, resolveVars, namesVars>>

\* the command is run again with the same source and options; the output
\* file and the files below docsPath are as the run before left them
RunAgain ==
    /\ runPc \in {"done", "failed"}
    /\ runs < MaxRuns
    /\ runs' = runs + 1
    /\ runPc' = "running"
    /\ runError' = "none"
    /\ exitStatus' = -1
    /\ srcPc' = "given"
    /\ sourceType' = "none"
    /\ parsed' = NotParsed
    /\ route' = "none"
    /\ fetchPc' = "idle"
    /\ repository' = <<>>
    /\ preferredBranch' = ""
    /\ branchesToTry' = <<>>
    /\ nextBranch' = 1
    /\ requests' = <<>>
    /\ responses' = <<>>
    /\ fetched' = ""
    /\ thrown' = [kind |-> "none", message |-> <<>>]
    /\ dlPc' = "idle"
    /\ tree' = <<>>
    /\ optPath' = <<>>
    /\ onProgress' = "absent"
    /\ targetPath' = <<>>
    /\ detectedPath' = <<>>
    /\ markdownFiles' = <<>>
    /\ nextFile' = 1
    /\ downloadedCount' = 0
    /\ failedFiles' = <<>>
    /\ attempts' = <<>>
    /\ progressCalls' = <<>>
    /\ mkdirs' = {}
    /\ writtenFiles' = {}
    /\ dlThrown' = "none"
    /\ lastOutcome' = "none"
    /\ dlSourceName' = <<"name">>
    /\ dlResult' = NoResult
    /\ ixPc' = "idle"
    /\ ixResult' = <<>>
    /\ ixThrown' = "none"
    /\ op' = "none"
    /\ opId' = <<>>
    /\ opIndex' = <<>>
    /\ opResult' = "none"
    /\ listed' = <<>>
    /\ prevDoc' = doc
    /\ UNCHANGED <<fileExists, doc, dirFiles, source, runSource, optBranch, optName>>
    /\ UNCHANGED namesVars

RunNext ==
    \/ Dispatch
    \/ \E p \in {<<"Docs">>}, mkdirOk \in BOOLEAN : BeginDownload(p, mkdirOk)
    \/ FetchTree
    \/ \E response \in RunResponses : FetchBranch(response)
    \/ \E t \in RunTrees : TreeFetched(t)
    \/ SelectFiles
    \/ \E outcome \in RunOutcomes : DownloadOne(outcome)
    \/ \E write \in WriteOutcomes : FinishDownloadRun(write)
    \/ CatchFailure
    \/ RunAgain

SpecRun == RunInit /\ [][RunNext]_vars

----------------------------------------------------------------------------
(* Vocabulary of the properties *)

Written == {"created", "updated", "added"}

\* the identifiers whose markers can occur in the file
MarkerIds == ValidNames \cup {NameB}

Count(s, t) == Cardinality({i \in 1..Len(s) : s[i] = t})

hasMarker(content, sourceName) ==
    \/ includes(content, getStartMarker(sourceName))
    \/ includes(content, getEndMarker(sourceName))

\* both markers are present and the first start marker precedes the first end marker
hasBlock(content, sourceName) ==
    /\ includes(content, getStartMarker(sourceName))
    /\ includes(content, getEndMarker(sourceName))
    /\ indexOf(content, getStartMarker(sourceName)) < indexOf(content, getEndMarker(sourceName))

\* the block of an identifier, markers included (<<>> when there is none)
blockIn(content, sourceName) ==
    IF hasBlock(content, sourceName)
    THEN substring(content, indexOf(content, getStartMarker(sourceName)),
                   indexOf(content, getEndMarker(sourceName)) + 1)
    ELSE <<>>

suffix(s, n) == SubSeq(s, Len(s) - n + 1, Len(s))

AtMostOneStart(content) ==
    \A n \in MarkerIds : Count(content, Tok("start", n)) <= 1

AtMostOneBlock(content) ==
    \A n \in MarkerIds :
        /\ Count(content, Tok("start", n)) <= 1
        /\ Count(content, Tok("end", n)) <= 1

Upserted == op = "generate" /\ opResult \in Written

----------------------------------------------------------------------------
(* Properties of the block merger *)

\* C1: from a host document with at most one start marker per identifier, a
\* successful Upsert leaves at most one start marker and at most one end marker
\* of every identifier in the document.
C1_OneBlockPerIdentifier ==
    (Upserted /\ AtMostOneStart(prevDoc)) => AtMostOneBlock(doc)

\* C2: Upsert is idempotent: after a successful Upsert, the same Upsert applied
\* again succeeds and leaves the document as it is.
C2_UpsertIdempotent ==
    Upserted =>
        LET again == updateContent(doc, opId, blockOf(opId, opIndex))
        IN  again.ok /\ again.content = doc

\* the case of C3: the last operation appended a block for opId to a document
\* that held no marker of opId
AppendedToClean ==
    /\ op = "generate"
    /\ opResult = "added"
    /\ ~hasMarker(prevDoc, opId)

\* C3: Upsert into a document without a marker of the identifier, followed by
\* Remove of that identifier, makes Remove return true and gives back the
\* document as it was before the Upsert, up to the white space at its end (the
\* place where the block was).
C3_UpsertThenRemoveRestores ==
    [][(AppendedToClean /\ op' = "remove" /\ opId' = opId /\ opResult' # "RemoveFailed")
         => (opResult' = "true" /\ trimEnd(doc') = trimEnd(prevDoc))]_vars

\* C3 witness: a Remove returned true on a document that an Upsert had made by
\* appending the block to a text without markers of the identifier.
C3_Witness ==
    /\ op = "remove"
    /\ opResult = "true"
    /\ \E base \in InitDocs :
          /\ ~hasMarker(base, opId)
          /\ Tok("text", <<"u">>) \in {base[i] : i \in 1..Len(base)}
          /\ prevDoc = updateContent(base, opId, blockOf(opId, IndexText)).content
    /\ trimEnd(doc) # doc

\* the case of C4: the last operation replaced the existing block of opId
Replaced ==
    /\ Upserted
    /\ hasBlock(prevDoc, opId)

startOf(content, sourceName) == indexOf(content, getStartMarker(sourceName))

endOf(content, sourceName) == indexOf(content, getEndMarker(sourceName))

\* the text before the start marker and the text after the end marker are kept
SurroundingsKept ==
    /\ substring(doc, 0, startOf(prevDoc, opId)) = substring(prevDoc, 0, startOf(prevDoc, opId))
    /\ suffix(doc, Len(prevDoc) - endOf(prevDoc, opId) - 1)
         = suffix(prevDoc, Len(prevDoc) - endOf(prevDoc, opId) - 1)

\* the block of another identifier lies wholly outside the block of opId
Outside(content, other, sourceName) ==
    \/ endOf(content, other) < startOf(content, sourceName)
    \/ startOf(content, other) > endOf(content, sourceName)

\* C4 as claimed: when Upsert replaces the block of an identifier, the text
\* before its start marker and after its end marker is unchanged and so is the
\* block of every other identifier.
C4_ReplaceKeepsEveryOtherBlock ==
    Replaced =>
        /\ SurroundingsKept
        /\ \A n \in MarkerIds \ {opId} :
              hasBlock(prevDoc, n) => blockIn(doc, n) = blockIn(prevDoc, n)

\* C4 as amended: when Upsert replaces the block of an identifier, the text
\* before its start marker and after its end marker is unchanged, and so is the
\* block of every other identifier that lies wholly before that start marker or
\* wholly after that end marker.
C4_ReplaceKeepsSurroundings ==
    Replaced =>
        /\ SurroundingsKept
        /\ doc = substring(prevDoc, 0, startOf(prevDoc, opId))
                 \o blockOf(opId, opIndex)
                 \o suffix(prevDoc, Len(prevDoc) - endOf(prevDoc, opId) - 1)
        /\ \A n \in MarkerIds \ {opId} :
              (hasBlock(prevDoc, n) /\ Outside(prevDoc, n, opId))
                 => blockIn(doc, n) = blockIn(prevDoc, n)

\* C4 witness: a block was replaced in a document that holds text before it, and
\* the block of another identifier after it.
C4_Witness ==
    /\ Replaced
    /\ startOf(prevDoc, opId) > 0
    /\ \E n \in MarkerIds \ {opId} : hasBlock(prevDoc, n) /\ Outside(prevDoc, n, opId)
    /\ doc # prevDoc

\* the case of C5: generateAgentsMd reached updateContent on a document with a
\* start marker and no end marker of the identifier
Malformed ==
    /\ op = "generate"
    /\ validateSourceName(opId) = "ok"
    /\ trim(opIndex) # <<>>
    /\ includes(prevDoc, getStartMarker(opId))
    /\ ~includes(prevDoc, getEndMarker(opId))

\* C5: with a start marker and no end marker of the identifier in the document,
\* Upsert fails with MalformedBlock and the stored document is not changed.
C5_MalformedLeavesDocument ==
    Malformed => (opResult = "MalformedBlock" /\ doc = prevDoc /\ fileExists)

\* C5 witness: an Upsert failed with MalformedBlock on a document that holds
\* other text besides the lone start marker.
C5_Witness ==
    /\ Malformed
    /\ opResult = "MalformedBlock"
    /\ Len(doc) > 1

RECURSIVE withoutNewlines(_)
withoutNewlines(s) ==
    IF s = <<>> THEN <<>>
    ELSE (IF s[1] = NL THEN <<>> ELSE <<s[1]>>) \o withoutNewlines(Tail(s))

Removed == op = "remove" /\ opResult = "true"

\* C6: when Remove returns true, the document holds no start marker and no end
\* marker of the identifier any more, the block of every other identifier (one
\* that lies outside the removed block) is as it was, and apart from newlines the document is the text that was before
\* the start marker followed by the text that was after the end marker.
C6_RemoveLeavesNoMarker ==
    Removed =>
        /\ ~hasMarker(doc, opId)
        /\ \A n \in MarkerIds \ {opId} :
              (hasBlock(prevDoc, n) /\ Outside(prevDoc, n, opId))
                 => blockIn(doc, n) = blockIn(prevDoc, n)
        /\ withoutNewlines(doc)
             = withoutNewlines(substring(prevDoc, 0, startOf(prevDoc, opId)))
               \o withoutNewlines(suffix(prevDoc, Len(prevDoc) - endOf(prevDoc, opId) - 1))

\* the identifiers of the start markers of a text that validateSourceName
\* accepts, in the order of the text
RECURSIVE startIds(_)
startIds(content) ==
    IF content = <<>> THEN <<>>
    ELSE (IF content[1].k = "start" /\ validateSourceName(content[1].id) = "ok"
          THEN <<content[1].id>> ELSE <<>>)
         \o startIds(Tail(content))

\* C7: List returns the identifiers of all start markers of the document, in
\* document order, for every identifier the validation of Upsert accepts, and
\* the empty sequence when there is no document.
C7_ListReturnsEveryIdentifier ==
    op = "list" => listed = (IF fileExists THEN startIds(doc) ELSE <<>>)

----------------------------------------------------------------------------
(* Properties of the branch fallback *)

\* a list without its repeated elements, the first occurrence of each kept
RECURSIVE dedupe(_)
dedupe(list) ==
    IF list = <<>> THEN <<>>
    ELSE LET front == dedupe(SubSeq(list, 1, Len(list) - 1))
             last == list[Len(list)]
         IN  IF Contains(front, last) THEN front ELSE Append(front, last)

\* the candidate list: the preferred branch if there is one, then main, master,
\* develop, dev, without duplicates
candidateList(preferred) ==
    dedupe((IF preferred # "" THEN <<preferred>> ELSE <<>>)
           \o <<"main", "master", "develop", "dev">>)

isPrefix(short, long) ==
    /\ Len(short) <= Len(long)
    /\ short = SubSeq(long, 1, Len(short))

\* C8: the tree requests follow the candidate list in its order, no branch is
\* requested twice, and the first request that gets a tree is the last one: the
\* branch returned is the branch of that request.
C8_RequestsFollowCandidates ==
    /\ isPrefix(requests, candidateList(preferredBranch))
    /\ \A i, j \in 1..Len(requests) : i # j => requests[i] # requests[j]
    /\ \A i \in 1..Len(responses) :
          responses[i] = "tree" =>
              /\ i = Len(responses)
              /\ fetchPc = "returned"
              /\ fetched = requests[i]
    /\ fetchPc = "returned" => (responses # <<>> /\ responses[Len(responses)] = "tree")

\* C8 witness: the preferred branch met a 404, main a tree: main is returned
\* after two requests.
C8_Witness ==
    /\ fetchPc = "returned"
    /\ preferredBranch = "feature"
    /\ requests = <<"feature", "main">>
    /\ responses = <<"404", "tree">>
    /\ fetched = "main"

\* the failure fetchRepoTree reports for a response that is neither a tree nor a 404
kindOf(type) ==
    IF type = "timeout" THEN "NetworkTimeout"
    ELSE IF type = "403" THEN "RateLimited"
    ELSE IF type = "401" THEN "AuthFailed"
    ELSE "FetchFailed"

\* C9: a tree request that fails with anything but a 404 is the last request,
\* and its failure is the error the caller gets.
C9_OnlyNotFoundAdvances ==
    \A i \in 1..Len(responses) :
        responses[i] \notin {"tree", "404"} =>
            /\ i = Len(responses)
            /\ fetchPc = "thrown"
            /\ thrown.kind = kindOf(responses[i])

AllNotFound ==
    /\ responses # <<>>
    /\ \A i \in 1..Len(responses) : responses[i] = "404"

\* C10: while every request meets a 404, each candidate is requested once, in
\* order; after the last candidate (at most five requests) the loop ends with
\* RepositoryNotFound, whose message lists the candidates in the order tried.
C10_ExhaustionListsCandidates ==
    AllNotFound =>
        /\ isPrefix(requests, candidateList(preferredBranch))
        /\ Len(requests) <= 5
        /\ fetchPc = (IF Len(requests) = Len(candidateList(preferredBranch))
                      THEN "thrown" ELSE "loop")
        /\ fetchPc = "thrown" =>
              /\ thrown.kind = "RepositoryNotFound"
              /\ suffix(thrown.message, Len(requests) + 2)
                   = <<"Tried", "branches">> \o candidateList(preferredBranch)

\* C10 witness: all five candidates of a preferred branch outside the fallbacks
\* met a 404.
C10_Witness ==
    /\ AllNotFound
    /\ fetchPc = "thrown"
    /\ requests = <<"feature", "main", "master", "develop", "dev">>

----------------------------------------------------------------------------
(* The selection and the download loop of downloadDocs *)

\* SelectFiles has run
SelectionDone == dlPc \in {"loop", "returned", "thrown"}

\* the loop ran to its end: downloadDocs returned or threw DownloadFailed
BatchCompleted ==
    \/ dlPc = "returned"
    \/ dlPc = "thrown" /\ dlThrown = "DownloadFailed"

autoDetects == optPath = <<>> \/ optPath = <<"/">>

\* the top-level directories of the tree whose lower-cased name is the i-th
\* conventional name
topLevelMatches(i) ==
    {tree[j].path : j \in {k \in 1..Len(tree) :
                              /\ tree[k].type = "tree"
                              /\ \A n \in 1..Len(tree[k].path) : tree[k].path[n] # "/"
                              /\ toLowerCase(tree[k].path) = DOC_FOLDER_NAMES[i]}}

matchingNames == {i \in 1..Len(DOC_FOLDER_NAMES) : topLevelMatches(i) # {}}

\* C11: when the requested path is '' or '/', the effective path is a
\* top-level directory whose lower-cased name is the earliest name of
\* [docs, doc, documentation, guide, guides] that any top-level directory has,
\* in its original case, and it is reported as detected; when no top-level
\* directory has one of the names the effective path stays the root and
\* nothing is reported; a non-empty requested path is kept as it is.
C11_AutoDetectByListPriority ==
    SelectionDone =>
        IF autoDetects /\ matchingNames # {}
        THEN /\ targetPath \in topLevelMatches(
                     CHOOSE i \in matchingNames : \A j \in matchingNames : i <= j)
             /\ detectedPath = targetPath
        ELSE /\ targetPath = optPath
             /\ detectedPath = <<>>

\* the case of C11: Guide comes first in the tree, Docs is detected
C11_Witness ==
    /\ SelectionDone
    /\ optPath = <<>>
    /\ tree # <<>>
    /\ tree[1].path = <<"Guide">>
    /\ tree[1].type = "tree"
    /\ detectedPath = <<"Docs">>

effectivePath == stripSlashes(targetPath)

\* the positions in the tree of the entries the selection must hold
eligible ==
    {i \in 1..Len(tree) :
        /\ tree[i].type = "blob"
        /\ \/ effectivePath = <<>>
           \/ tree[i].path = effectivePath
           \/ /\ Len(tree[i].path) > Len(effectivePath)
              /\ SubSeq(tree[i].path, 1, Len(effectivePath) + 1) = effectivePath \o <<"/">>
        /\ \E e \in {".md", ".mdx", ".markdown"} :
               /\ Len(basename(tree[i].path)) >= 2
               /\ lowerPiece(tree[i].path[Len(tree[i].path)]) = e}

\* the k-th smallest element of a set of numbers
kth(S, k) == CHOOSE i \in S : Cardinality({j \in S : j < i}) = k - 1

\* C12: the selection is the file entries of the tree, in tree order, whose
\* path is the effective path or lies below it and whose extension is .md,
\* .mdx or .markdown in any case; when there is none, downloadDocs fails with
\* NoDocumentFiles and no download was attempted.
C12_SelectionIsEligibleEntries ==
    SelectionDone =>
        /\ Len(markdownFiles) = Cardinality(eligible)
        /\ \A k \in 1..Len(markdownFiles) : markdownFiles[k] = tree[kth(eligible, k)]
        /\ (eligible = {}) <=> (dlThrown = "NoDocumentFiles")
        /\ dlThrown = "NoDocumentFiles" =>
               attempts = <<>> /\ mkdirs = {} /\ writtenFiles = {}

\* the case of C12: the tree holds Docs-old/x.md, the effective path is Docs
\* and a file below Docs is selected
C12_Witness ==
    /\ SelectionDone
    /\ effectivePath = <<"Docs">>
    /\ \E i \in 1..Len(tree) : tree[i].path = <<"Docs", "-old", "/", "x", ".md">>
    /\ markdownFiles = <<Entry("blob", <<"Docs", "/", "a", ".md">>)>>

\* the relative paths of the first n selected files
relativePaths(n) == [k \in 1..n |-> relativeOf(markdownFiles[k], targetPath)]

\* C13: a failure of one file does not end the batch: the files are attempted
\* once each in the order of the selection, and when the loop has ended the
\* number of files downloaded plus the number of files failed is the number
\* of files selected, no file being both written and failed.
C13_EveryFileAttemptedOnce ==
    /\ (dlPc = "loop" \/ BatchCompleted) => attempts = relativePaths(nextFile - 1)
    /\ BatchCompleted =>
           /\ Len(attempts) = Len(markdownFiles)
           /\ downloadedCount + Len(failedFiles) = Len(markdownFiles)
           /\ \A i \in 1..Len(failedFiles) :
                  resolve(docsPath, failedFiles[i]) \notin writtenFiles

\* C14: downloadDocs throws DownloadFailed exactly when no file was
\* downloaded; otherwise it returns, and the value returned carries the number
\* of files downloaded and the list of the relative paths that failed.
C14_OutcomeCarriesFailedList ==
    /\ BatchCompleted => ((dlThrown = "DownloadFailed") <=> (downloadedCount = 0))
    /\ dlPc = "returned" =>
           /\ dlResult.downloadedFiles = downloadedCount
           /\ "failed" \in DOMAIN dlResult
           /\ dlResult.failed = failedFiles

\* the number of the first n selected files that were written
succeededSoFar(n) ==
    Cardinality({k \in 1..n : resolve(docsPath, relativePaths(n)[k]) \in writtenFiles})

\* C15: a callback that was passed is called once after every selected file,
\* downloaded or failed, with the number downloaded so far, the number
\* selected and the relative path of the file.
C15_ProgressAfterEveryFile ==
    (BatchCompleted /\ onProgress # "absent") =>
        /\ Len(progressCalls) = Len(markdownFiles)
        /\ \A k \in 1..Len(progressCalls) :
               /\ progressCalls[k].file = relativePaths(k)[k]
               /\ progressCalls[k].total = Len(markdownFiles)
               /\ progressCalls[k].current = succeededSoFar(k)

\* a path is docsPath or lies below it
insideRoot(p) ==
    \/ p = docsPath
    \/ Len(p) > Len(docsPath) /\ SubSeq(p, 1, Len(docsPath) + 1) = docsPath \o <<"/">>

\* a directory that exists before the loop: docsPath and the directories above it
existsBefore(d) == Len(d) <= Len(docsPath) /\ SubSeq(docsPath, 1, Len(d)) = d

\* C16: the loop creates no directory and writes no file outside docsPath, and
\* an entry whose destination lies outside docsPath is never attempted: it
\* ends the batch with PathTraversal.
C16_NothingOutsideLocalRoot ==
    /\ \A d \in mkdirs : insideRoot(d) \/ existsBefore(d)
    /\ \A f \in writtenFiles : insideRoot(f)
    /\ \A i \in 1..Len(attempts) : insideRoot(resolve(docsPath, attempts[i]))

----------------------------------------------------------------------------
(* The dispatch on the source argument *)

\* the source starts with a scheme
hasScheme == source # <<>> /\ source[1] \in Schemes

\* the source ends with llms.txt or llm.txt in any case
endsInManifestName ==
    /\ Len(source) >= 2
    /\ lowerPiece(source[Len(source) - 1]) \in {"llms", "llm"}
    /\ lowerPiece(source[Len(source)]) = ".txt"

\* the source has the shape [scheme]github.com/<owner>/<repo>
isLocator ==
    LET i == IF hasScheme THEN 2 ELSE 1
    IN  /\ Len(source) >= i + 4
        /\ source[i] = "github.com"
        /\ source[i + 1] = "/"
        /\ source[i + 2] # "/"
        /\ source[i + 3] = "/"
        /\ source[i + 4] # "/"

\* C18: a URL whose path ends in llms.txt or llm.txt, in any case and on any
\* host, github.com included, goes to downloadLlmsTxt; a source that is
\* neither a repository locator nor ends in a manifest name fails with
\* InvalidSource.
C18_ManifestUrlOnAnyHost ==
    srcPc = "resolved" =>
        /\ (hasScheme /\ endsInManifestName) => route = "downloadLlmsTxt"
        /\ (~isLocator /\ ~endsInManifestName) => route = "InvalidSource"

\* a locator of owner o and repo r
locator(scheme, o, r, git, slash) ==
    scheme \o <<"github.com", "/", o, "/", r>> \o git \o slash

\* C19: parseGitHubUrl returns the same owner and repo for github.com/o/r
\* with or without a scheme, with or without .git, with or without a slash
\* at the end, .git followed by a slash included.
C19_LocatorVariantsParseAlike ==
    srcPc = "resolved" =>
        \A o \in Owners, r \in Repos :
            \A scheme \in {<<>>, <<"https://">>, <<"http://">>},
               git \in {<<>>, <<".git">>}, slash \in {<<>>, <<"/">>} :
                source = locator(scheme, o, r, git, slash) =>
                    /\ parsed.ok
                    /\ parsed.owner = <<o>>
                    /\ parsed.repo = <<r>>

----------------------------------------------------------------------------
(* The indexer *)

\* the files of the walk that scanDirectory kept, as a set
walked == {scanDirectory(dirFiles)[i] : i \in 1..Len(scanDirectory(dirFiles))}

\* the elements of a set of strings in ascending order of their code units,
\* the empty string first
ascending(S) ==
    CHOOSE s \in [1..Cardinality(S) -> S] :
        \A i, j \in 1..Cardinality(S) : i < j => lessCodeUnits(s[i], s[j])

\* the index of a set of files: a line for each directory, the root first and
\* the others ascending, each with the names of its files ascending
indexOfSet(S) ==
    LET keys == ascending({dirKey(f) : f \in S})
    IN  join([i \in 1..Len(keys) |->
                 indexLine(<<"name">>, keys[i],
                           ascending({basename(f) : f \in {g \in S : dirKey(g) = keys[i]}}))],
             "\n")

----------------------------------------------------------------------------
(* The main command on an llms.txt source *)

\* the run got past downloadLlmsTxt and the destination directory holds the
\* manifest file and nothing else
ManifestAlone ==
    /\ runPc \in {"done", "failed"}
    /\ runError \notin {"InvalidUrl", "EmptyManifest", "ManifestNotFound",
                         "NetworkTimeout", "DownloadFailed"}
    /\ dirFiles = <<manifestFile(runSource)>>

\* C17: when the manifest was downloaded into a directory that holds no other
\* file, createIndex on that directory succeeds, and unless generateAgentsMd
\* fails the run ends in success with a block of the source in the output file.
C17_ManifestRunSucceeds ==
    ManifestAlone =>
        /\ runError # "NoDocumentFiles"
        /\ runError = "none" =>
               /\ runPc = "done"
               /\ hasBlock(doc, generateLlmsSourceName(runSource))

\* a file whose name, or the name of a directory above it, starts with a dot,
\* or that lies below a directory named node_modules
hiddenOrDependency(file) ==
    \/ \E i \in 1..Len(split(file)) :
           split(file)[i] # <<>> /\ split(file)[i][1] \in {".hidden", ".git"}
    \/ \E i \in 1..(Len(split(file)) - 1) : split(file)[i] = <<"node_modules">>

\* the extension of the file is .md, .mdx or .markdown in any case
hasMarkdownExtension(file) ==
    /\ Len(basename(file)) >= 2
    /\ lowerPiece(file[Len(file)]) \in {".md", ".mdx", ".markdown"}

\* C21: the index createIndex returns names no hidden file, no hidden
\* directory and no node_modules directory, and createIndex fails with
\* NoDocumentFiles when the directory holds no other markdown file.
C21_NoHiddenEntryInIndex ==
    ixPc \in {"returned", "thrown"} =>
        /\ \A k \in 1..Len(ixResult) : ixResult[k] \notin {".hidden", ".git", "node_modules"}
        /\ (\A i \in 1..Len(dirFiles) :
                hiddenOrDependency(dirFiles[i]) \/ ~hasMarkdownExtension(dirFiles[i]))
           => (ixPc = "thrown" /\ ixThrown = "NoDocumentFiles")

\* a file below a directory whose name starts with a dot or is node_modules
belowSkippedDirectory(file) ==
    \E i \in 1..(Len(split(file)) - 1) :
        \/ split(file)[i] # <<>> /\ split(file)[i][1] \in {".hidden", ".git"}
        \/ split(file)[i] = <<"node_modules">>

\* C21 as the code has it: the index names no hidden directory and no
\* node_modules directory (a hidden file in a directory that is read is
\* listed), and createIndex fails with NoDocumentFiles exactly when no
\* markdown file lies outside those directories.
C21_NoSkippedDirectoryInIndex ==
    ixPc \in {"returned", "thrown"} =>
        /\ \A k \in 1..Len(ixResult) : ixResult[k] \notin {".git", "node_modules"}
        /\ (\A i \in 1..Len(dirFiles) :
                belowSkippedDirectory(dirFiles[i]) \/ ~hasMarkdownExtension(dirFiles[i]))
           <=> (ixPc = "thrown" /\ ixThrown = "NoDocumentFiles")

\* the case of C21: the directory holds .git/c.md, node_modules/p.md and
\* a.md, and the index is returned
C21_Witness ==
    /\ ixPc = "returned"
    /\ \E i \in 1..Len(dirFiles) : dirFiles[i] = <<".git", "/", "c", ".md">>
    /\ \E i \in 1..Len(dirFiles) : dirFiles[i] = <<"node_modules", "/", "p", ".md">>
    /\ ixResult = <<"name", ":{", "a", ".md", "}">>

----------------------------------------------------------------------------
(* The download loop of downloadDocs, continued *)

\* the attempted files that were not written, in the order of the attempts
notWritten == SelectSeq(attempts, LAMBDA rel : resolve(docsPath, rel) \notin writtenFiles)

\* C23: the outcome of a completed batch is what the results of the files
\* make it, whatever the callback does: the number downloaded is the number
\* of files written, the failed list is the files not written, and the batch
\* fails with DownloadFailed exactly when no file was written.
C23_CallbackIsObservational ==
    BatchCompleted =>
        /\ downloadedCount = Cardinality(writtenFiles)
        /\ failedFiles = notWritten
        /\ (dlThrown = "DownloadFailed") <=> (writtenFiles = {})

\* C27: a selected file for which fs.mkdir, the fetch and the disk all work
\* is written to a file strictly below docsPath and counted, and a batch
\* that ends with such a file returns; so it is for a requested path that is
\* the path of the file itself.
C27_FetchedFileIsWritten ==
    (dlPc \in {"loop", "returned", "thrown"} /\ lastOutcome = "ok"
     /\ dlThrown \in {"none", "DownloadFailed"}) =>
        /\ resolve(docsPath, attempts[Len(attempts)]) \in writtenFiles
        /\ resolve(docsPath, attempts[Len(attempts)]) # docsPath
        /\ insideRoot(resolve(docsPath, attempts[Len(attempts)]))
        /\ downloadedCount >= 1
        /\ BatchCompleted => dlPc = "returned"

----------------------------------------------------------------------------
(* The identifiers generated for sources *)

\* C25: every identifier generateSourceName makes of a repository, whose
\* name has up to MAX_SOURCE_NAME characters, and every identifier
\* generateLlmsSourceName makes of a manifest URL passes validateSourceName.
C25_GeneratedNamesAreValid ==
    /\ nmPc \in {"repositories", "done"} =>
           /\ validateSourceName(nmNames.first) = "ok"
           /\ validateSourceName(nmNames.second) = "ok"
    /\ nmPc = "done" => validateSourceName(nmNames.llms) = "ok"

\* C28: two repositories that differ in owner or in repo get different
\* identifiers and different local roots.
C28_DistinctSourcesDistinctNames ==
    (nmPc \in {"repositories", "done"} /\ nmFirst # nmSecond) =>
        /\ nmNames.first # nmNames.second
        /\ docsPathOf(nmNames.first) # docsPathOf(nmNames.second)

----------------------------------------------------------------------------
(* The main command on a repository source *)

\* C26: a branch given with --branch is the first candidate of
\* fetchRepoTreeWithFallback and the first branch requested, whatever branch
\* the URL names; the branch of the URL is the first candidate when --branch
\* is not given.
C26_BranchOptionFirst ==
    fetchPc # "idle" =>
        /\ optBranch # "none" =>
               /\ branchesToTry[1] = optBranch
               /\ requests # <<>> => requests[1] = optBranch
        /\ (optBranch = "none" /\ urlBranch # "") =>
               /\ branchesToTry[1] = urlBranch
               /\ requests # <<>> => requests[1] = urlBranch

\* a path lies strictly below the docs directory /cwd/.docs
belowDocsDirectory(p) == Len(p) > 5 /\ SubSeq(p, 1, 5) = <<"/", "cwd", "/", ".docs", "/">>

\* C30: whatever the source and the options, --source-name included, docsPath
\* lies strictly below the docs directory, and so does every directory the
\* download creates and every file it writes.
C30_LocalRootInsideDocsDirectory ==
    dlPc # "idle" =>
        /\ belowDocsDirectory(docsPath)
        /\ \A d \in mkdirs : belowDocsDirectory(d)
        /\ \A f \in writtenFiles : belowDocsDirectory(f)

\* something fatal happened in the run
fatalFailure ==
    \/ route = "InvalidSource"
    \/ fetchPc = "thrown"
    \/ dlPc = "thrown"
    \/ ixPc = "thrown"
    \/ opResult \in {"InvalidIdentifier", "EmptyIndex", "MalformedBlock", "WriteFailed"}

\* C22: a run that ended has status 1 exactly when something fatal happened
\* (an invalid source, a failed tree fetch, no document files, a path
\* traversal, no file downloaded, a failed index, a malformed block, a failed
\* write) and status 0 exactly when the download returned, the index was made
\* and the output file was written, failed files or not; a run that has not
\* ended has no status.
C22_ExitStatus ==
    /\ runPc = "running" => exitStatus = -1
    /\ runPc \in {"done", "failed"} =>
           /\ exitStatus \in {0, 1}
           /\ exitStatus = 1 <=> fatalFailure
           /\ exitStatus = 0 <=> /\ dlPc = "returned"
                                 /\ ixPc = "returned"
                                 /\ opResult \in {"created", "updated", "added"}

\* the case of C22: a batch with a failed file and a downloaded file, and a
\* run that ends with status 0
C22_Witness ==
    /\ runPc = "done"
    /\ exitStatus = 0
    /\ failedFiles # <<>>
    /\ downloadedCount >= 1

\* the index of the files the latest run wrote below docsPath, and of no others
indexOfLatestRun == createIndex(withWritten(<<>>, writtenPaths, docsPath), docsPath)

\* C24: the index a run puts into the output file is the index of the files
\* that run downloaded; a file an earlier run left below docsPath is not in it.
C24_IndexListsLatestRunOnly ==
    runPc = "done" =>
        /\ indexOfLatestRun.ok
        /\ ixResult = indexOfLatestRun.index
        /\ opIndex = <<Tok("index", indexOfLatestRun.index)>>

\* C29: the only step of a run that changes the output file is its last one,
\* taken after the download returned, the index was made and the source name
\* passed validateSourceName, and it ends the run with success; a step that
\* ends the run with a failure leaves the file as it was.
C29_DocumentWrittenLast ==
    [][(doc' # doc \/ fileExists' # fileExists) =>
           /\ runPc = "running"
           /\ runPc' = "done"
           /\ dlPc = "returned"
           /\ ixPc' = "returned"
           /\ validateSourceName(dlSourceName) = "ok"]_vars
====
